---- MODULE Spec2Model ----
(***************************************************************************)
(* dApp staking pallet (pallets/dapp-staking): protocol clock, account     *)
(* ledgers, staker info, contract stake, era info and reward claims.       *)
(* Every dispatchable is a pure operator from the pallet storage to a      *)
(* result  [err, st, reward];  the runtime's transactional layer           *)
(* (with_storage_layer) commits  st  only when  err = "Ok".                *)
(***************************************************************************)
EXTENDS Integers, Sequences, FiniteSets, TLC

\* ------------------------------------------------------------------------
\* Model bounds
\* ------------------------------------------------------------------------
Accounts == {"a1", "a2"}
Contracts == {"c1", "c2"}
Root == "root"
Origins == Accounts \cup {Root}

MaxAmount == 3
MaxBlock == 3
MaxBalance == 6
MaxClockBlock == 12
MaxStakingBlock == 6
MaxTwoBlock == 4
MaxTierBlock == 6
MaxTierBalance == 200
MaxTierDApps == 3
MaxExpiryBlock == 11
MaxExpiryBalance == 20
MaxChunkBlock == 4
MaxChunkBalance == 9
MaxExitBlock == 7

Amounts == 0..MaxAmount
SpecAmounts == {0, MaxAmount}
SpecMoveAmounts == {1, MaxAmount}
TwoAmounts == {MaxAmount - 1, MaxAmount}
StakingAmounts == {MaxAmount - 1, MaxAmount}

InitialBalance == [a \in Accounts |-> IF a = "a1" THEN 5 ELSE 3]

\* ------------------------------------------------------------------------
\* Runtime configuration (mock runtime parameters, scaled down)
\* ------------------------------------------------------------------------
MinimumLockedAmount == 3
MinimumStakeAmount == 2
UnlockingPeriod == 1
MaxUnlockingChunks == 2
MaxNumberOfStakedContracts == 2
MaxNumberOfContracts == 2
DAppIdMAX == 2
StandardEraLength == 1
StandardErasPerVotingSubperiod == 2
StandardErasPerBuildAndEarnSubperiod == 3
RewardRetentionInPeriods == 1
EraRewardSpanLength == 4
MaxBonusSafeMovesPerPeriod == 0
StakerRewardPool == 1
DAppRewardPool == 40
BonusRewardPool == 1

\* RankedTier::MAX_RANK
MAX_RANK == 10

\* TierConfig: slots, thresholds and reward portions (Perbill parts) per tier
InitTierConfig ==
    [slots_per_tier |-> <<1, 2>>,
     tier_thresholds |-> <<4, 1>>,
     reward_portion |-> <<25000000, 50000000>>]

Min(a, b) == IF a < b THEN a ELSE b
Max(a, b) == IF a > b THEN a ELSE b
saturating_sub(a, b) == IF a > b THEN a - b ELSE 0

Billion == 1000000000

HundredThousand == 100000

\* Perbill::from_rational(amount, denominator), rounded down
perbill_from_rational(amount, denominator) ==
    LET d == Max(denominator, 1)
    IN  IF amount >= d THEN Billion
        ELSE (amount * (Billion \div d)) + ((amount * (Billion % d)) \div d)

\* the quotient and the remainder of part * value by Billion, computed in
\* two halves so that no intermediate product leaves 32 bits
perbill_product(high, low) ==
    [quotient |-> (high + (low \div HundredThousand)) \div (Billion \div HundredThousand),
     remainder |->
        (((high + (low \div HundredThousand)) % (Billion \div HundredThousand))
                * HundredThousand)
            + (low % HundredThousand)]

perbill_round(product) ==
    product.quotient + (IF product.remainder * 2 > Billion THEN 1 ELSE 0)

\* Perbill * Balance, rounded to the nearest, ties down
perbill_mul(part, value) ==
    perbill_round(perbill_product((part \div HundredThousand) * value,
                                  (part % HundredThousand) * value))

unlocking_period == StandardEraLength * UnlockingPeriod

blocks_per_voting_period_one_era == StandardEraLength

blocks_per_voting_period == StandardEraLength * StandardErasPerVotingSubperiod

\* ------------------------------------------------------------------------
\* StakeAmount
\* ------------------------------------------------------------------------
StakeAmountDefault == [voting |-> 0, build_and_earn |-> 0, era |-> 0, period |-> 0]

total(sa) == sa.voting + sa.build_and_earn

is_empty(sa) == sa.voting = 0 /\ sa.build_and_earn = 0

for_type(sa, subperiod) ==
    IF subperiod = "Voting" THEN sa.voting ELSE sa.build_and_earn

\* StakeAmount::add : the amount lands in the component of the subperiod
add(sa, amount, subperiod) ==
    IF subperiod = "Voting"
    THEN [sa EXCEPT !.voting = @ + amount]
    ELSE [sa EXCEPT !.build_and_earn = @ + amount]


\* a variant that consumes the voting component first
subtract_voting_first(sa, amount) ==
    IF sa.voting >= amount
    THEN [sa EXCEPT !.voting = @ - amount]
    ELSE [sa EXCEPT !.voting = 0,
                    !.build_and_earn = saturating_sub(@, amount - sa.voting)]

\* StakeAmount::subtract : build&earn is consumed first, then voting
subtract(sa, amount) ==
    IF sa.build_and_earn >= amount
    THEN [sa EXCEPT !.build_and_earn = @ - amount]
    ELSE [sa EXCEPT !.build_and_earn = 0,
                    !.voting = saturating_sub(@, amount - sa.build_and_earn)]

convert_bonus_into_regular_stake(sa) ==
    [sa EXCEPT !.voting = 0, !.build_and_earn = sa.voting + sa.build_and_earn]

\* ------------------------------------------------------------------------
\* Storage
\* ------------------------------------------------------------------------
VARIABLES storage, block, balance

vars == <<storage, block, balance>>

LedgerDefault ==
    [locked |-> 0, unlocking |-> <<>>, staked |-> StakeAmountDefault,
     staked_future |-> StakeAmountDefault, contract_stake_count |-> 0]

StakerInfoNone ==
    [previous_staked |-> StakeAmountDefault, staked |-> StakeAmountDefault,
     bonus_status |-> 0]

ContractStakeDefault ==
    [staked |-> StakeAmountDefault, staked_future |-> StakeAmountDefault]

DAppNone == [registered |-> FALSE, id |-> 0, owner |-> "a1", beneficiary |-> "none"]

DAppIds == 0..(DAppIdMAX - 1)

InitStorage ==
    [ActiveProtocolState |->
        [era |-> 1, next_era_start |-> blocks_per_voting_period + 1,
         period_number |-> 1, subperiod |-> "Voting",
         next_subperiod_start_era |-> 2, maintenance |-> FALSE],
     NextDAppId |-> 0,
     IntegratedDApps |-> [c \in Contracts |-> DAppNone],
     Ledger |-> [a \in Accounts |-> LedgerDefault],
     StakerInfo |-> [k \in Accounts \X Contracts |-> StakerInfoNone],
     ContractStake |-> [i \in DAppIds |-> ContractStakeDefault],
     CurrentEraInfo |->
        [total_locked |-> 0, unlocking |-> 0,
         current_stake_amount |->
            [voting |-> 0, build_and_earn |-> 0, era |-> 1, period |-> 1],
         next_stake_amount |->
            [voting |-> 0, build_and_earn |-> 0, era |-> 2, period |-> 1]],
     EraRewards |-> <<>>,
     PeriodEnd |-> <<>>,
     DAppTiers |-> <<>>,
     TierConfig |-> InitTierConfig,
     Safeguard |-> FALSE]

Ok(s) == [err |-> "Ok", st |-> s, reward |-> 0]
Err(e, s) == [err |-> e, st |-> s, reward |-> 0]


\* a variant that recognises the end of the period one era late
is_next_period_late(ps, era) ==
    ps.subperiod = "BuildAndEarn" /\ ps.next_subperiod_start_era < era

\* ------------------------------------------------------------------------
\* Protocol clock
\* ------------------------------------------------------------------------
is_next_period(ps, era) ==
    ps.subperiod = "BuildAndEarn" /\ ps.next_subperiod_start_era <= era


\* a variant that empties the next-era totals at every era boundary
migrate_to_next_era_resetting(ei, new_period) ==
    IF new_period
    THEN [ei EXCEPT
            !.current_stake_amount =
                [voting |-> 0, build_and_earn |-> 0,
                 era |-> @.era + 1, period |-> @.period + 1],
            !.next_stake_amount =
                [voting |-> 0, build_and_earn |-> 0,
                 era |-> @.era + 1, period |-> @.period + 1]]
    ELSE [ei EXCEPT
            !.current_stake_amount = ei.next_stake_amount,
            !.next_stake_amount =
                [voting |-> 0, build_and_earn |-> 0,
                 era |-> @.era + 1, period |-> @.period]]

\* EraInfo::migrate_to_next_era
migrate_to_next_era(ei, new_period) ==
    IF new_period
    THEN [ei EXCEPT
            !.current_stake_amount =
                [voting |-> 0, build_and_earn |-> 0,
                 era |-> @.era + 1, period |-> @.period + 1],
            !.next_stake_amount =
                [voting |-> 0, build_and_earn |-> 0,
                 era |-> @.era + 1, period |-> @.period + 1]]
    ELSE [ei EXCEPT
            !.current_stake_amount = ei.next_stake_amount,
            !.next_stake_amount = [@ EXCEPT !.era = @ + 1]]

\* ContractStakeAmount::get(era, period)
contract_stake_get(cs, era, period) ==
    IF ~is_empty(cs.staked_future) /\ cs.staked_future.era <= era
    THEN IF cs.staked_future.period = period
         THEN [cs.staked_future EXCEPT !.era = era]
         ELSE StakeAmountDefault
    ELSE IF ~is_empty(cs.staked) /\ cs.staked.era <= era /\ cs.staked.period = period
         THEN [cs.staked EXCEPT !.era = era]
         ELSE StakeAmountDefault

\* ------------------------------------------------------------------------
\* Tier assignment
\* ------------------------------------------------------------------------
\* the dApps with a stake in the era, sorted by stake, largest first; dApps
\* of equal stake come in an order this model does not fix
staked_dapps(s, era, period) ==
    {id \in DOMAIN s.ContractStake :
        total(contract_stake_get(s.ContractStake[id], era, period)) > 0}

sorted_orders(s, era, period) ==
    {order \in [1..Cardinality(staked_dapps(s, era, period))
                    -> staked_dapps(s, era, period)] :
        /\ \A i, j \in DOMAIN order : i # j => order[i] # order[j]
        /\ \A i, j \in DOMAIN order :
                i < j => total(contract_stake_get(s.ContractStake[order[i]], era, period))
                            >= total(contract_stake_get(s.ContractStake[order[j]], era, period))}

dapp_stakes(s, era, period, order) ==
    [i \in DOMAIN order |->
        [id |-> order[i],
         amount |-> total(contract_stake_get(s.ContractStake[order[i]], era, period))]]

\* RankedTier::find_rank, saturated at MAX_RANK
find_rank(lower_bound, upper_bound, stake_amount) ==
    IF upper_bound = 0 THEN 0
    ELSE IF saturating_sub(upper_bound, lower_bound) \div MAX_RANK = 0 THEN 0
    ELSE Min(saturating_sub(stake_amount, lower_bound)
                \div (saturating_sub(upper_bound, lower_bound) \div MAX_RANK),
             MAX_RANK)


\* a variant that fills a tier without looking at its threshold
tier_take_ignoring_threshold(stakes, placed, lower_bound, capacity) ==
    Cardinality({n \in 1..capacity : placed + n <= Len(stakes)})

\* how many dApps a tier takes: from the first dApp not yet placed, while
\* the threshold is satisfied and the tier has capacity
tier_take(stakes, placed, lower_bound, capacity) ==
    Cardinality({n \in 1..capacity :
                    /\ placed + n <= Len(stakes)
                    /\ stakes[placed + n].amount >= lower_bound})

tier_slots(stakes, placed, taken, tier_id, lower_bound, upper_bound) ==
    {[id |-> stakes[i].id, tier |-> tier_id,
      rank |-> find_rank(lower_bound, upper_bound, stakes[i].amount)] :
        i \in (placed + 1)..(placed + taken)}

\* a variant without fallthrough: a tier starts after every dApp that
\* cleared the threshold of the tier before it
RECURSIVE assign_tiers_without_fallthrough(_, _, _, _, _)
assign_tiers_without_fallthrough(stakes, config, tier_id, placed, upper_bound) ==
    IF tier_id >= Len(config.slots_per_tier) THEN {}
    ELSE tier_slots(stakes, placed,
                    tier_take(stakes, placed, config.tier_thresholds[tier_id + 1],
                              config.slots_per_tier[tier_id + 1]),
                    tier_id, config.tier_thresholds[tier_id + 1], upper_bound)
         \cup assign_tiers_without_fallthrough(stakes, config, tier_id + 1,
                    Cardinality({i \in DOMAIN stakes :
                        stakes[i].amount >= config.tier_thresholds[tier_id + 1]}),
                    config.tier_thresholds[tier_id + 1])

\* the placements of tier tier_id and of the tiers after it
RECURSIVE assign_tiers(_, _, _, _, _)
assign_tiers(stakes, config, tier_id, placed, upper_bound) ==
    IF tier_id >= Len(config.slots_per_tier) THEN {}
    ELSE tier_slots(stakes, placed,
                    tier_take(stakes, placed, config.tier_thresholds[tier_id + 1],
                              config.slots_per_tier[tier_id + 1]),
                    tier_id, config.tier_thresholds[tier_id + 1], upper_bound)
         \cup assign_tiers(stakes, config, tier_id + 1,
                    placed + tier_take(stakes, placed,
                                       config.tier_thresholds[tier_id + 1],
                                       config.slots_per_tier[tier_id + 1]),
                    config.tier_thresholds[tier_id + 1])

RECURSIVE ranks_sum(_)
ranks_sum(slots) ==
    IF slots = {} THEN 0
    ELSE (CHOOSE p \in slots : TRUE).rank
            + ranks_sum(slots \ {CHOOSE p \in slots : TRUE})


\* a variant that gives every slot the whole allocation of the tier
tier_reward_undivided(config, tier_id, dapp_reward_pool) ==
    IF config.slots_per_tier[tier_id + 1] = 0 THEN 0
    ELSE perbill_mul(config.reward_portion[tier_id + 1], dapp_reward_pool)

\* the reward of one slot of a tier
tier_reward(config, tier_id, dapp_reward_pool) ==
    IF config.slots_per_tier[tier_id + 1] = 0 THEN 0
    ELSE perbill_mul(config.reward_portion[tier_id + 1], dapp_reward_pool)
            \div config.slots_per_tier[tier_id + 1]


\* a variant without the cap of a MAX_RANK-th of a slot's reward
rank_reward_uncapped(capacity, reward, slots) ==
    IF ranks_sum(slots) = 0 THEN 0
    ELSE (reward * saturating_sub(capacity, Cardinality(slots)))
            \div ranks_sum(slots)

\* the reward of one rank of a tier: the reward of its empty slots shared by
\* the ranks of its dApps, at most a MAX_RANK-th of a slot's reward
rank_reward(capacity, reward, slots) ==
    IF ranks_sum(slots) = 0 THEN 0
    ELSE Min((reward * saturating_sub(capacity, Cardinality(slots)))
                \div ranks_sum(slots),
             reward \div MAX_RANK)

tier_rewards_for(config, period, dapp_reward_pool, placements) ==
    [some |-> TRUE,
     dapps |-> [id \in {p.id : p \in placements} |->
                    [tier |-> (CHOOSE p \in placements : p.id = id).tier,
                     rank |-> (CHOOSE p \in placements : p.id = id).rank]],
     rewards |-> [t \in DOMAIN config.slots_per_tier |->
                    tier_reward(config, t - 1, dapp_reward_pool)],
     rank_rewards |-> [t \in DOMAIN config.slots_per_tier |->
                    rank_reward(config.slots_per_tier[t],
                                tier_reward(config, t - 1, dapp_reward_pool),
                                {p \in placements : p.tier = t - 1})],
     period |-> period]

\* the tier record for one order of the sorted dApps
tier_assignment_for(s, era, period, dapp_reward_pool, order) ==
    tier_rewards_for(s.TierConfig, period, dapp_reward_pool,
        assign_tiers(dapp_stakes(s, era, period, order), s.TierConfig, 0, 0, 0))

get_dapp_tier_assignment_and_rewards(s, era, period, dapp_reward_pool) ==
    tier_assignment_for(s, era, period, dapp_reward_pool,
        CHOOSE order \in sorted_orders(s, era, period) : TRUE)

NoTierRewards ==
    [some |-> FALSE, dapps |-> <<>>, rewards |-> <<>>, rank_rewards |-> <<>>,
     period |-> 0]

\* DAppTierRewards::try_claim
tier_claim_amount(tiers, dapp_id) ==
    tiers.rewards[tiers.dapps[dapp_id].tier + 1]
        + tiers.dapps[dapp_id].rank * tiers.rank_rewards[tiers.dapps[dapp_id].tier + 1]

\* a variant that leaves the dApp in the record
tier_claim_keep(tiers, dapp_id) == tiers

tier_claim_remove(tiers, dapp_id) ==
    [tiers EXCEPT !.dapps = [id \in DOMAIN @ \ {dapp_id} |-> @[id]]]

\* a variant that assigns tiers for the last era of a period only
era_tier_rewards_at_period_end(s, build_and_earn, period_ends) ==
    IF build_and_earn /\ period_ends
    THEN get_dapp_tier_assignment_and_rewards(s, s.ActiveProtocolState.era,
            s.ActiveProtocolState.period_number, DAppRewardPool)
    ELSE NoTierRewards

\* the tier record of the era that ends: every Build&Earn era gets one,
\* the voting era none
era_tier_rewards(s, build_and_earn, period_ends) ==
    IF build_and_earn
    THEN get_dapp_tier_assignment_and_rewards(s, s.ActiveProtocolState.era,
            s.ActiveProtocolState.period_number, DAppRewardPool)
    ELSE NoTierRewards

era_and_period_handler(s, now) ==
    LET ps == s.ActiveProtocolState
        ei == s.CurrentEraInfo
        current_era == ps.era
        next_era == ps.era + 1
        bep == ps.subperiod = "BuildAndEarn"
        ends == is_next_period(ps, next_era)
        era_reward ==
            [staked |-> total(ei.current_stake_amount),
             staker_reward_pool |-> IF bep THEN StakerRewardPool ELSE 0,
             dapp_reward_pool |-> IF bep THEN DAppRewardPool ELSE 0]
        tiers == era_tier_rewards(s, bep, ends)
        ps1 ==
            IF ~bep
            THEN [ps EXCEPT
                    !.subperiod = "BuildAndEarn",
                    !.next_subperiod_start_era =
                        next_era + StandardErasPerBuildAndEarnSubperiod,
                    !.next_era_start = now + StandardEraLength]
            ELSE IF ends
            THEN [ps EXCEPT
                    !.subperiod = "Voting",
                    !.period_number = @ + 1,
                    !.next_subperiod_start_era = next_era + 1,
                    !.next_era_start = now + blocks_per_voting_period]
            ELSE [ps EXCEPT !.next_era_start = now + StandardEraLength]
    IN  [s EXCEPT
            !.ActiveProtocolState = [ps1 EXCEPT !.era = next_era],
            !.CurrentEraInfo = migrate_to_next_era(ei, bep /\ ends),
            !.EraRewards = Append(@, era_reward),
            !.DAppTiers = Append(@, tiers),
            !.PeriodEnd =
                IF bep /\ ends
                THEN Append(@, [bonus_reward_pool |-> BonusRewardPool,
                                total_vp_stake |-> ei.current_stake_amount.voting,
                                final_era |-> current_era])
                ELSE @]

on_initialize_every_block(s, now) ==
    IF s.ActiveProtocolState.maintenance THEN s
    ELSE era_and_period_handler(s, now)

on_initialize_in_maintenance(s, now) ==
    IF s.ActiveProtocolState.next_era_start > now THEN s
    ELSE era_and_period_handler(s, now)


\* a variant that advances the era only at the very block it is scheduled for
on_initialize_on_schedule(s, now) ==
    IF s.ActiveProtocolState.maintenance THEN s
    ELSE IF s.ActiveProtocolState.next_era_start # now THEN s
    ELSE era_and_period_handler(s, now)

on_initialize(s, now) ==
    IF s.ActiveProtocolState.maintenance THEN s
    ELSE IF s.ActiveProtocolState.next_era_start > now THEN s
    ELSE era_and_period_handler(s, now)

\* ------------------------------------------------------------------------
\* Privileged calls
\* ------------------------------------------------------------------------
maintenance_mode(s, origin, enabled) ==
    IF origin # Root THEN Err("BadOrigin", s)
    ELSE Ok([s EXCEPT !.ActiveProtocolState.maintenance = enabled])


\* a variant that does not look at the safeguard
force_ignoring_safeguard(s, origin, forcing_type, now) ==
    IF s.ActiveProtocolState.maintenance THEN Err("Disabled", s)
    ELSE IF origin # Root THEN Err("BadOrigin", s)
    ELSE Ok([s EXCEPT
            !.ActiveProtocolState.next_era_start = now + 1,
            !.ActiveProtocolState.next_subperiod_start_era =
                IF forcing_type = "Subperiod"
                THEN s.ActiveProtocolState.era + 1 ELSE @])

force_current_era(s, origin, forcing_type, now) ==
    IF s.ActiveProtocolState.maintenance THEN Err("Disabled", s)
    ELSE IF origin # Root THEN Err("BadOrigin", s)
    ELSE IF s.Safeguard THEN Err("ForceNotAllowed", s)
    ELSE Ok([s EXCEPT
            !.ActiveProtocolState.next_era_start = now + 1,
            !.ActiveProtocolState.next_subperiod_start_era =
                IF forcing_type = "Subperiod"
                THEN s.ActiveProtocolState.era ELSE @])

force(s, origin, forcing_type, now) ==
    IF s.ActiveProtocolState.maintenance THEN Err("Disabled", s)
    ELSE IF origin # Root THEN Err("BadOrigin", s)
    ELSE IF s.Safeguard THEN Err("ForceNotAllowed", s)
    ELSE Ok([s EXCEPT
            !.ActiveProtocolState.next_era_start = now + 1,
            !.ActiveProtocolState.next_subperiod_start_era =
                IF forcing_type = "Subperiod"
                THEN s.ActiveProtocolState.era + 1 ELSE @])

\* ------------------------------------------------------------------------
\* Account ledger
\* ------------------------------------------------------------------------
RECURSIVE chunks_sum(_)
chunks_sum(chunks) ==
    IF chunks = <<>> THEN 0 ELSE Head(chunks).amount + chunks_sum(Tail(chunks))

active_locked_amount(ledger) == ledger.locked
unlocking_amount(ledger) == chunks_sum(ledger.unlocking)
total_locked_amount(ledger) == ledger.locked + unlocking_amount(ledger)

\* AccountLedger::staked_amount(period)
staked_amount(ledger, period) ==
    IF ~is_empty(ledger.staked_future) /\ ledger.staked_future.period = period
    THEN total(ledger.staked_future)
    ELSE IF ledger.staked.period = period THEN total(ledger.staked) ELSE 0


\* a variant that lets staked funds be unlocked
unlockable_amount_ignoring_stake(ledger, period) ==
    active_locked_amount(ledger)

unlockable_amount(ledger, period) ==
    saturating_sub(active_locked_amount(ledger), staked_amount(ledger, period))

stakeable_amount_ignoring_stake(ledger, period) ==
    active_locked_amount(ledger)

stakeable_amount(ledger, period) ==
    saturating_sub(active_locked_amount(ledger), staked_amount(ledger, period))

ledger_is_empty(ledger) ==
    /\ ledger.locked = 0
    /\ ledger.unlocking = <<>>
    /\ total(ledger.staked) = 0
    /\ is_empty(ledger.staked_future)

\* Pallet::update_ledger : an empty ledger is removed from storage
update_ledger(s, account, ledger) ==
    [s EXCEPT !.Ledger[account] =
        IF ledger_is_empty(ledger) THEN LedgerDefault ELSE ledger]

\* Balances::balance_frozen(FreezeReason::DAppStaking) : update_ledger
\* freezes what the ledger holds, locked or unlocking
balance_frozen(s, account) == total_locked_amount(s.Ledger[account])


\* the chunks that are left when amount is taken off them, oldest first
RECURSIVE consume_chunks(_, _)
consume_chunks(chunks, amount) ==
    IF chunks = <<>> \/ amount = 0 THEN chunks
    ELSE IF Head(chunks).amount <= amount
    THEN consume_chunks(Tail(chunks), amount - Head(chunks).amount)
    ELSE <<[Head(chunks) EXCEPT !.amount = @ - amount]>> \o Tail(chunks)

\* a variant that takes the amount from the unlocking chunks first and
\* locks fresh balance only for the rest
lock_relocking_first(s, bal, account, amount) ==
    IF s.ActiveProtocolState.maintenance THEN Err("Disabled", s)
    ELSE IF account = Root THEN Err("BadOrigin", s)
    ELSE
    LET ledger == s.Ledger[account]
        relocked == Min(unlocking_amount(ledger), amount)
        available_balance == saturating_sub(bal[account], total_locked_amount(ledger))
        fresh == Min(available_balance, amount - relocked)
        ledger1 == [ledger EXCEPT !.locked = @ + relocked + fresh,
                                  !.unlocking = consume_chunks(@, relocked)]
    IN  IF relocked + fresh = 0 THEN Err("ZeroAmount", s)
        ELSE IF active_locked_amount(ledger1) < MinimumLockedAmount
        THEN Err("LockedAmountBelowThreshold", s)
        ELSE Ok([update_ledger(s, account, ledger1) EXCEPT
                    !.CurrentEraInfo.total_locked = @ + relocked + fresh,
                    !.CurrentEraInfo.unlocking = @ - relocked])

\* a variant that takes only the active locked amount as already locked
lock_ignoring_unlocking(s, bal, account, amount) ==
    IF s.ActiveProtocolState.maintenance THEN Err("Disabled", s)
    ELSE IF account = Root THEN Err("BadOrigin", s)
    ELSE
    LET ledger == s.Ledger[account]
        available_balance == saturating_sub(bal[account], active_locked_amount(ledger))
        amount_to_lock == Min(available_balance, amount)
        ledger1 == [ledger EXCEPT !.locked = @ + amount_to_lock]
    IN  IF amount_to_lock = 0 THEN Err("ZeroAmount", s)
        ELSE IF active_locked_amount(ledger1) < MinimumLockedAmount
        THEN Err("LockedAmountBelowThreshold", s)
        ELSE Ok([update_ledger(s, account, ledger1) EXCEPT
                    !.CurrentEraInfo.total_locked = @ + amount_to_lock])

lock(s, bal, account, amount) ==
    IF s.ActiveProtocolState.maintenance THEN Err("Disabled", s)
    ELSE IF account = Root THEN Err("BadOrigin", s)
    ELSE
    LET ledger == s.Ledger[account]
        available_balance == saturating_sub(bal[account], total_locked_amount(ledger))
        amount_to_lock == Min(available_balance, amount)
        ledger1 == [ledger EXCEPT !.locked = @ + amount_to_lock]
    IN  IF amount_to_lock = 0 THEN Err("ZeroAmount", s)
        ELSE IF active_locked_amount(ledger1) < MinimumLockedAmount
        THEN Err("LockedAmountBelowThreshold", s)
        ELSE Ok([update_ledger(s, account, ledger1) EXCEPT
                    !.CurrentEraInfo.total_locked = @ + amount_to_lock])

expected_unlock_amount_partial(ledger, period, amount) ==
    Min(unlockable_amount(ledger, period), amount)

\* the amount an unlock call releases when it succeeds
expected_unlock_amount(ledger, period, amount) ==
    LET possible_unlock_amount == Min(unlockable_amount(ledger, period), amount)
    IN  IF saturating_sub(ledger.locked, possible_unlock_amount) < MinimumLockedAmount
        THEN ledger.locked
        ELSE possible_unlock_amount


\* a variant that never merges: every unlock gets a chunk of its own
add_unlocking_chunk_appending(chunks, amount, unlock_block) ==
    Append(chunks, [amount |-> amount, unlock_block |-> unlock_block])

\* AccountLedger::add_unlocking_chunk : chunks of one unlock block merge
add_unlocking_chunk(chunks, amount, unlock_block) ==
    IF \E i \in 1..Len(chunks) : chunks[i].unlock_block = unlock_block
    THEN [i \in 1..Len(chunks) |->
            IF chunks[i].unlock_block = unlock_block
            THEN [chunks[i] EXCEPT !.amount = @ + amount]
            ELSE chunks[i]]
    ELSE Append(chunks, [amount |-> amount, unlock_block |-> unlock_block])

can_add_unlocking_chunk(chunks, unlock_block) ==
    \/ \E i \in 1..Len(chunks) : chunks[i].unlock_block = unlock_block
    \/ Len(chunks) < MaxUnlockingChunks

unlock(s, account, amount, now) ==
    IF s.ActiveProtocolState.maintenance THEN Err("Disabled", s)
    ELSE IF account = Root THEN Err("BadOrigin", s)
    ELSE
    LET ledger == s.Ledger[account]
        period == s.ActiveProtocolState.period_number
        possible == Min(unlockable_amount(ledger, period), amount)
        remaining_amount == saturating_sub(active_locked_amount(ledger), possible)
        amount_to_unlock == expected_unlock_amount(ledger, period, amount)
        unlock_block == now + unlocking_period
        ledger1 ==
            [ledger EXCEPT
                !.locked = @ - amount_to_unlock,
                !.unlocking = add_unlocking_chunk(@, amount_to_unlock, unlock_block)]
    IN  IF remaining_amount < MinimumLockedAmount /\ staked_amount(ledger, period) # 0
        THEN Err("RemainingStakePreventsFullUnlock", s)
        ELSE IF amount_to_unlock = 0 THEN Err("ZeroAmount", s)
        ELSE IF ~can_add_unlocking_chunk(ledger.unlocking, unlock_block)
        THEN Err("TooManyUnlockingChunks", s)
        ELSE Ok([update_ledger(s, account, ledger1) EXCEPT
                    !.CurrentEraInfo.unlocking = @ + amount_to_unlock,
                    !.CurrentEraInfo.total_locked = @ - amount_to_unlock])


\* a variant that claims every chunk, matured or not
claimable_chunks_ignoring_block(chunks, now) == chunks

\* chunks whose unlock block has been reached
claimable_chunks(chunks, now) ==
    SelectSeq(chunks, LAMBDA c : c.unlock_block <= now)

remaining_chunks(chunks, now) ==
    SelectSeq(chunks, LAMBDA c : c.unlock_block > now)

claim_unlocked(s, account, now) ==
    IF s.ActiveProtocolState.maintenance THEN Err("Disabled", s)
    ELSE IF account = Root THEN Err("BadOrigin", s)
    ELSE
    LET ledger == s.Ledger[account]
        amount == chunks_sum(claimable_chunks(ledger.unlocking, now))
        ledger1 == [ledger EXCEPT !.unlocking = remaining_chunks(@, now)]
        s1 == IF ledger_is_empty(ledger1)
              THEN [s EXCEPT !.StakerInfo =
                        [k \in DOMAIN s.StakerInfo |->
                            IF k[1] = account THEN StakerInfoNone ELSE @[k]]]
              ELSE s
    IN  IF amount = 0 THEN Err("NoUnlockedChunksToClaim", s)
        ELSE Ok([update_ledger(s1, account, ledger1) EXCEPT
                    !.CurrentEraInfo.unlocking = @ - amount])


\* a variant that takes the amount off EraInfo's unlocking total only
relock_unlocking_dropping(s, account) ==
    IF s.ActiveProtocolState.maintenance THEN Err("Disabled", s)
    ELSE IF account = Root THEN Err("BadOrigin", s)
    ELSE
    LET ledger == s.Ledger[account]
        amount == unlocking_amount(ledger)
        ledger1 == [ledger EXCEPT !.locked = @ + amount, !.unlocking = <<>>]
    IN  IF ledger.unlocking = <<>> THEN Err("NoUnlockingChunks", s)
        ELSE IF active_locked_amount(ledger1) < MinimumLockedAmount
        THEN Err("LockedAmountBelowThreshold", s)
        ELSE Ok([update_ledger(s, account, ledger1) EXCEPT
                    !.CurrentEraInfo.unlocking = @ - amount])

relock_unlocking(s, account) ==
    IF s.ActiveProtocolState.maintenance THEN Err("Disabled", s)
    ELSE IF account = Root THEN Err("BadOrigin", s)
    ELSE
    LET ledger == s.Ledger[account]
        amount == unlocking_amount(ledger)
        ledger1 == [ledger EXCEPT !.locked = @ + amount, !.unlocking = <<>>]
    IN  IF ledger.unlocking = <<>> THEN Err("NoUnlockingChunks", s)
        ELSE IF active_locked_amount(ledger1) < MinimumLockedAmount
        THEN Err("LockedAmountBelowThreshold", s)
        ELSE Ok([update_ledger(s, account, ledger1) EXCEPT
                    !.CurrentEraInfo.total_locked = @ + amount,
                    !.CurrentEraInfo.unlocking = @ - amount])

\* legacy calls kept for backwards compatibility
unbond_and_unstake(s, account, contract, amount, now) ==
    unlock(s, account, amount, now)

withdraw_unbonded(s, account, now) == claim_unlocked(s, account, now)

\* ------------------------------------------------------------------------
\* dApp registry
\* ------------------------------------------------------------------------
is_registered(s, contract) == s.IntegratedDApps[contract].registered

registered_count(s) ==
    Cardinality({c \in DOMAIN s.IntegratedDApps : is_registered(s, c)})

\* a variant that hands out NextDAppId without incrementing it
register_without_increment(s, origin, owner, contract) ==
    IF s.ActiveProtocolState.maintenance THEN Err("Disabled", s)
    ELSE IF origin # Root THEN Err("BadOrigin", s)
    ELSE IF is_registered(s, contract) THEN Err("ContractAlreadyExists", s)
    ELSE IF registered_count(s) >= MaxNumberOfContracts
    THEN Err("ExceededMaxNumberOfContracts", s)
    ELSE IF s.NextDAppId >= DAppIdMAX THEN Err("NewDAppIdUnavailable", s)
    ELSE Ok([s EXCEPT
            !.IntegratedDApps[contract] =
                [registered |-> TRUE, id |-> s.NextDAppId,
                 owner |-> owner, beneficiary |-> "none"]])

register(s, origin, owner, contract) ==
    IF s.ActiveProtocolState.maintenance THEN Err("Disabled", s)
    ELSE IF origin # Root THEN Err("BadOrigin", s)
    ELSE IF is_registered(s, contract) THEN Err("ContractAlreadyExists", s)
    ELSE IF registered_count(s) >= MaxNumberOfContracts
    THEN Err("ExceededMaxNumberOfContracts", s)
    ELSE IF s.NextDAppId >= DAppIdMAX THEN Err("NewDAppIdUnavailable", s)
    ELSE Ok([s EXCEPT
            !.IntegratedDApps[contract] =
                [registered |-> TRUE, id |-> s.NextDAppId,
                 owner |-> owner, beneficiary |-> "none"],
            !.NextDAppId = @ + 1])

set_dapp_reward_beneficiary(s, origin, contract, beneficiary) ==
    IF s.ActiveProtocolState.maintenance THEN Err("Disabled", s)
    ELSE IF origin = Root THEN Err("BadOrigin", s)
    ELSE IF ~is_registered(s, contract) THEN Err("ContractNotFound", s)
    ELSE IF s.IntegratedDApps[contract].owner # origin THEN Err("OriginNotOwner", s)
    ELSE Ok([s EXCEPT !.IntegratedDApps[contract].beneficiary = beneficiary])

\* the manager origin (root) may bypass the owner
set_dapp_owner(s, origin, contract, new_owner) ==
    IF s.ActiveProtocolState.maintenance THEN Err("Disabled", s)
    ELSE IF ~is_registered(s, contract) THEN Err("ContractNotFound", s)
    ELSE IF origin # Root /\ s.IntegratedDApps[contract].owner # origin
    THEN Err("OriginNotOwner", s)
    ELSE Ok([s EXCEPT !.IntegratedDApps[contract].owner = new_owner])


\* a variant that clears the stake of the dApp and keeps its registry entry
unregister_keeping_entry(s, origin, contract) ==
    IF s.ActiveProtocolState.maintenance THEN Err("Disabled", s)
    ELSE IF origin # Root THEN Err("BadOrigin", s)
    ELSE IF ~is_registered(s, contract) THEN Err("ContractNotFound", s)
    ELSE Ok([s EXCEPT
            !.ContractStake[s.IntegratedDApps[contract].id] = ContractStakeDefault])

unregister(s, origin, contract) ==
    IF s.ActiveProtocolState.maintenance THEN Err("Disabled", s)
    ELSE IF origin # Root THEN Err("BadOrigin", s)
    ELSE IF ~is_registered(s, contract) THEN Err("ContractNotFound", s)
    ELSE Ok([s EXCEPT
            !.ContractStake[s.IntegratedDApps[contract].id] = ContractStakeDefault,
            !.IntegratedDApps[contract] = DAppNone])

\* ------------------------------------------------------------------------
\* Stake, unstake, move
\* ------------------------------------------------------------------------
\* a variant under which no period ever expires
oldest_claimable_period_none(current_period) == 0

oldest_claimable_period(current_period) ==
    saturating_sub(current_period, RewardRetentionInPeriods)

default_bonus_status == MaxBonusSafeMovesPerPeriod + 1

\* componentwise, saturating
subtract_stake(sa, entry) ==
    [sa EXCEPT !.voting = saturating_sub(@, entry.voting),
               !.build_and_earn = saturating_sub(@, entry.build_and_earn)]

add_stake(sa, entry) ==
    [sa EXCEPT !.voting = @ + entry.voting,
               !.build_and_earn = @ + entry.build_and_earn]

cleaned(sa) == IF is_empty(sa) THEN StakeAmountDefault ELSE sa

\* the unstake entry with the largest total, and the one of a given era
max_entry(entries) ==
    IF Len(entries) = 2 /\ total(entries[2]) > total(entries[1])
    THEN entries[2] ELSE entries[1]

entry_of_era(entries, era) ==
    IF entries[1].era = era THEN entries[1]
    ELSE IF Len(entries) = 2 /\ entries[2].era = era THEN entries[2]
    ELSE StakeAmountDefault

staked_period(ledger) ==
    IF ~is_empty(ledger.staked) THEN ledger.staked.period
    ELSE IF ~is_empty(ledger.staked_future) THEN ledger.staked_future.period
    ELSE 0

earliest_staked_era(ledger) ==
    IF ~is_empty(ledger.staked) THEN ledger.staked.era
    ELSE IF ~is_empty(ledger.staked_future) THEN ledger.staked_future.era
    ELSE 0

is_account_ledger_expired(ledger, current_period) ==
    staked_period(ledger) # 0
        /\ staked_period(ledger) < oldest_claimable_period(current_period)

maybe_cleanup_expired(ledger, current_period) ==
    IF is_account_ledger_expired(ledger, current_period)
    THEN [ledger EXCEPT !.staked = StakeAmountDefault,
                        !.staked_future = StakeAmountDefault]
    ELSE ledger


\* a variant that accepts a ledger with rewards still to claim
stake_unstake_argument_check_none(ledger, current_era, period) == "Ok"

\* AccountLedger::stake_unstake_argument_check
stake_unstake_argument_check(ledger, current_era, period) ==
    IF ~is_empty(ledger.staked)
    THEN IF ledger.staked.era # current_era THEN "InvalidEra"
         ELSE IF ledger.staked.period # period THEN "InvalidPeriod"
         ELSE "Ok"
    ELSE IF ~is_empty(ledger.staked_future)
    THEN IF ledger.staked_future.era # current_era
                /\ ledger.staked_future.era # current_era + 1
         THEN "InvalidEra"
         ELSE IF ledger.staked_future.period # period THEN "InvalidPeriod"
         ELSE "Ok"
    ELSE "Ok"

\* a future entry whose era has arrived becomes the current entry
ledger_roll(ledger, current_era) ==
    IF ~is_empty(ledger.staked_future) /\ ledger.staked_future.era = current_era
    THEN [ledger EXCEPT !.staked = ledger.staked_future,
                        !.staked_future = StakeAmountDefault]
    ELSE ledger


\* a variant in which the new stake counts for the current era at once
add_stake_amount_at_once(ledger, amount, current_era, period) ==
    LET l1 == ledger_roll(ledger, current_era)
        base == IF is_empty(l1.staked_future) THEN l1.staked ELSE l1.staked_future
    IN  [l1 EXCEPT
            !.staked =
                [add_stake(@, amount) EXCEPT !.era = current_era, !.period = period],
            !.staked_future =
                [add_stake(base, amount) EXCEPT !.era = current_era + 1,
                                                !.period = period]]

\* AccountLedger::add_stake_amount
add_stake_amount(ledger, amount, current_era, period) ==
    LET l1 == ledger_roll(ledger, current_era)
        base == IF is_empty(l1.staked_future) THEN l1.staked ELSE l1.staked_future
    IN  [l1 EXCEPT !.staked_future =
            [add_stake(base, amount) EXCEPT !.era = current_era + 1,
                                            !.period = period]]

\* AccountLedger::unstake_amount
unstake_amount(ledger, entries, current_era) ==
    LET l1 == ledger_roll(ledger, current_era)
    IN  IF is_empty(l1.staked_future)
        THEN [l1 EXCEPT !.staked = cleaned(subtract(@, total(max_entry(entries))))]
        ELSE [l1 EXCEPT
                !.staked =
                    cleaned(subtract(@, total(entry_of_era(entries, current_era)))),
                !.staked_future =
                    cleaned(subtract(@, total(max_entry(entries))))]

\* SingularStakingInfo
staking_info_exists(info) == info.staked.period # 0

total_staked_amount(info) == total(info.staked)

info_staked_amount(info, subperiod) == for_type(info.staked, subperiod)

is_bonus_eligible(info) == info.bonus_status > 0

staking_info_stake_as_voting(info, amount, current_era, period, incoming_bonus_status) ==
    [previous_staked |-> info.previous_staked,
     staked |-> [info.staked EXCEPT !.voting = @ + total(amount),
                                    !.era = current_era + 1, !.period = period],
     bonus_status |-> incoming_bonus_status]

\* SingularStakingInfo::stake
staking_info_stake(info, amount, current_era, period, incoming_bonus_status) ==
    [previous_staked |->
        IF info.staked.era <= current_era
        THEN IF total(info.staked) = 0 THEN StakeAmountDefault
             ELSE [info.staked EXCEPT !.era = current_era]
        ELSE info.previous_staked,
     staked |->
        [add_stake(info.staked, amount) EXCEPT !.era = current_era + 1,
                                               !.period = period],
     bonus_status |->
        IF info.bonus_status = 0 THEN incoming_bonus_status
        ELSE IF incoming_bonus_status # 0
        THEN (info.bonus_status + incoming_bonus_status) \div 2
        ELSE info.bonus_status]

\* SingularStakingInfo::unstake : the updated entry, the (era, amount)
\* entries that were unstaked, and the bonus status after the call
staking_info_unstake(info, amount, current_era, subperiod) ==
    LET snapshot == info.staked
        staked1 == [subtract(snapshot, amount) EXCEPT
                        !.era = Max(snapshot.era, current_era)]
        unstaked == [voting |-> snapshot.voting - staked1.voting,
                     build_and_earn |->
                        snapshot.build_and_earn - staked1.build_and_earn,
                     era |-> staked1.era, period |-> snapshot.period]
        bonus1 == IF subperiod # "Voting" /\ staked1.voting < snapshot.voting
                  THEN saturating_sub(info.bonus_status, 1)
                  ELSE info.bonus_status
        previous_era == staked1.era - 1
        prev1 == IF snapshot.era <= previous_era
                 THEN [snapshot EXCEPT !.era = previous_era]
                 ELSE IF ~is_empty(info.previous_staked)
                            /\ info.previous_staked.era <= previous_era
                 THEN [info.previous_staked EXCEPT !.era = previous_era]
                 ELSE StakeAmountDefault
        has_delta == /\ staked1.era > current_era
                     /\ ~is_empty(prev1)
                     /\ prev1.era = current_era
                     /\ total(prev1) > total(staked1)
        prev2 == IF has_delta
                 THEN subtract(prev1, total(prev1) - total(staked1))
                 ELSE prev1
        delta_entry == [voting |-> prev1.voting - prev2.voting,
                        build_and_earn |->
                            prev1.build_and_earn - prev2.build_and_earn,
                        era |-> prev1.era, period |-> snapshot.period]
    IN  [info |-> [previous_staked |-> cleaned(prev2),
                   staked |-> staked1,
                   bonus_status |-> bonus1],
         entries |-> IF has_delta THEN <<unstaked, delta_entry>> ELSE <<unstaked>>,
         bonus_status |-> bonus1]

\* ContractStakeAmount::stake
contract_stake_stake(cs, amount, current_era, period) ==
    LET stake_era == current_era + 1
        cur == IF ~is_empty(cs.staked_future) /\ cs.staked_future.era < stake_era
               THEN IF cs.staked_future.period = period
                    THEN cs.staked_future ELSE StakeAmountDefault
               ELSE IF cs.staked.period = period THEN cs.staked
               ELSE StakeAmountDefault
        base == IF ~is_empty(cs.staked_future) /\ cs.staked_future.era = stake_era
                THEN cs.staked_future ELSE cur
    IN  [staked |-> cur,
         staked_future |->
            [add_stake(base, amount) EXCEPT !.era = stake_era, !.period = period]]


\* a variant that takes the whole unstaked amount off the current era too
contract_stake_unstake_chip(cs, entries, current_era, period) ==
    [staked |->
        cleaned(subtract_stake(contract_stake_get(cs, current_era, period),
                               max_entry(entries))),
     staked_future |->
        IF ~is_empty(cs.staked_future)
                /\ cs.staked_future.era = current_era + 1
                /\ cs.staked_future.period = period
        THEN cleaned(subtract_stake(cs.staked_future, max_entry(entries)))
        ELSE StakeAmountDefault]

\* ContractStakeAmount::unstake
contract_stake_unstake(cs, entries, current_era, period) ==
    LET cur == contract_stake_get(cs, current_era, period)
        has_future == ~is_empty(cs.staked_future)
                        /\ cs.staked_future.era = current_era + 1
                        /\ cs.staked_future.period = period
    IN  IF has_future
        THEN [staked |->
                cleaned(subtract_stake(
                    IF cs.staked.period = period /\ cs.staked.era <= current_era
                    THEN cs.staked ELSE StakeAmountDefault,
                    entry_of_era(entries, current_era))),
              staked_future |->
                cleaned(subtract_stake(cs.staked_future, max_entry(entries)))]
        ELSE [staked |-> cleaned(subtract_stake(cur, max_entry(entries))),
              staked_future |-> StakeAmountDefault]

\* EraInfo::add_stake_amount / EraInfo::unstake_amount
era_info_add_stake_amount_current(ei, amount) ==
    [ei EXCEPT !.current_stake_amount = add_stake(@, amount)]

era_info_add_stake_amount(ei, amount) ==
    [ei EXCEPT !.next_stake_amount = add_stake(@, amount)]

era_info_unstake_amount_chip(ei, entries) ==
    [ei EXCEPT
        !.current_stake_amount = subtract_stake(@, max_entry(entries)),
        !.next_stake_amount = subtract_stake(@, max_entry(entries))]

era_info_unstake_amount(ei, entries) ==
    [ei EXCEPT
        !.current_stake_amount =
            subtract_stake(@, entry_of_era(entries, ei.current_stake_amount.era)),
        !.next_stake_amount = subtract_stake(@, max_entry(entries))]


\* a variant without the limit on the staked contracts of an account
inner_stake_uncapped(s, account, contract, amount, bonus_status) ==
    LET ps == s.ActiveProtocolState
        era == ps.era
        period == ps.period_number
        ledger0 == maybe_cleanup_expired(s.Ledger[account], period)
        info0 == s.StakerInfo[<<account, contract>>]
        same_period == staking_info_exists(info0) /\ info0.staked.period = period
        bonus_pending ==
            /\ staking_info_exists(info0)
            /\ ~same_period
            /\ info0.staked.period >= oldest_claimable_period(period)
            /\ is_bonus_eligible(info0)
        base_info ==
            IF same_period THEN info0
            ELSE [previous_staked |-> StakeAmountDefault,
                  staked |-> [StakeAmountDefault EXCEPT !.period = period],
                  bonus_status |-> bonus_status]
        info1 == staking_info_stake(base_info, amount, era, period, bonus_status)
        ledger1 ==
            [add_stake_amount(ledger0, amount, era, period) EXCEPT
                !.contract_stake_count = IF same_period THEN @ ELSE @ + 1]
        id == s.IntegratedDApps[contract].id
    IN  IF is_next_period(ps, era + 1) THEN Err("PeriodEndsInNextEra", s)
        ELSE IF stake_unstake_argument_check(ledger0, era, period) # "Ok"
        THEN Err("UnclaimedRewards", s)
        ELSE IF stakeable_amount(ledger0, period) < total(amount)
        THEN Err("UnavailableStakeFunds", s)
        ELSE IF bonus_pending THEN Err("UnclaimedRewards", s)
        ELSE IF total_staked_amount(info1) < MinimumStakeAmount
        THEN Err("InsufficientStakeAmount", s)
        ELSE Ok([update_ledger(s, account, ledger1) EXCEPT
                !.StakerInfo[<<account, contract>>] = info1,
                !.ContractStake[id] = contract_stake_stake(@, amount, era, period),
                !.CurrentEraInfo = era_info_add_stake_amount(@, amount)])

inner_stake(s, account, contract, amount, bonus_status) ==
    LET ps == s.ActiveProtocolState
        era == ps.era
        period == ps.period_number
        ledger0 == maybe_cleanup_expired(s.Ledger[account], period)
        info0 == s.StakerInfo[<<account, contract>>]
        same_period == staking_info_exists(info0) /\ info0.staked.period = period
        bonus_pending ==
            /\ staking_info_exists(info0)
            /\ ~same_period
            /\ info0.staked.period >= oldest_claimable_period(period)
            /\ is_bonus_eligible(info0)
        base_info ==
            IF same_period THEN info0
            ELSE [previous_staked |-> StakeAmountDefault,
                  staked |-> [StakeAmountDefault EXCEPT !.period = period],
                  bonus_status |-> bonus_status]
        info1 == staking_info_stake(base_info, amount, era, period, bonus_status)
        ledger1 ==
            [add_stake_amount(ledger0, amount, era, period) EXCEPT
                !.contract_stake_count = IF same_period THEN @ ELSE @ + 1]
        id == s.IntegratedDApps[contract].id
    IN  IF is_next_period(ps, era + 1) THEN Err("PeriodEndsInNextEra", s)
        ELSE IF stake_unstake_argument_check(ledger0, era, period) # "Ok"
        THEN Err("UnclaimedRewards", s)
        ELSE IF stakeable_amount(ledger0, period) < total(amount)
        THEN Err("UnavailableStakeFunds", s)
        ELSE IF bonus_pending THEN Err("UnclaimedRewards", s)
        ELSE IF total_staked_amount(info1) < MinimumStakeAmount
        THEN Err("InsufficientStakeAmount", s)
        ELSE IF ledger1.contract_stake_count > MaxNumberOfStakedContracts
        THEN Err("TooManyStakedContracts", s)
        ELSE Ok([update_ledger(s, account, ledger1) EXCEPT
                !.StakerInfo[<<account, contract>>] = info1,
                !.ContractStake[id] = contract_stake_stake(@, amount, era, period),
                !.CurrentEraInfo = era_info_add_stake_amount(@, amount)])

stake_checking_contract_first(s, account, contract, amount) ==
    IF s.ActiveProtocolState.maintenance THEN Err("Disabled", s)
    ELSE IF account = Root THEN Err("BadOrigin", s)
    ELSE IF ~is_registered(s, contract) THEN Err("ContractNotFound", s)
    ELSE IF amount = 0 THEN Err("ZeroAmount", s)
    ELSE inner_stake(s, account, contract,
            add(StakeAmountDefault, amount, s.ActiveProtocolState.subperiod),
            IF s.ActiveProtocolState.subperiod = "Voting"
            THEN default_bonus_status ELSE 0)

stake(s, account, contract, amount) ==
    IF s.ActiveProtocolState.maintenance THEN Err("Disabled", s)
    ELSE IF account = Root THEN Err("BadOrigin", s)
    ELSE IF amount = 0 THEN Err("ZeroAmount", s)
    ELSE IF ~is_registered(s, contract) THEN Err("ContractNotFound", s)
    ELSE inner_stake(s, account, contract,
            add(StakeAmountDefault, amount, s.ActiveProtocolState.subperiod),
            IF s.ActiveProtocolState.subperiod = "Voting"
            THEN default_bonus_status ELSE 0)

\* the amount an unstake (or move) call takes off a position
expected_unstake_amount(info, amount) ==
    IF saturating_sub(total_staked_amount(info), amount) < MinimumStakeAmount
    THEN total_staked_amount(info)
    ELSE amount

UnstakeResult(e, s, sa, b) ==
    [err |-> e, st |-> s, reward |-> 0, stake_amount |-> sa, bonus_status |-> b]

\* the storage writes of inner_unstake, given the result r of
\* SingularStakingInfo::unstake; the contract stake is only touched while
\* the contract is registered
unstake_writes(s, account, contract, r, is_full) ==
    LET ps == s.ActiveProtocolState
        ledger1 ==
            [unstake_amount(s.Ledger[account], r.entries, ps.era) EXCEPT
                !.contract_stake_count =
                    IF is_full THEN saturating_sub(@, 1) ELSE @]
        id == s.IntegratedDApps[contract].id
    IN  [update_ledger(s, account, ledger1) EXCEPT
            !.StakerInfo[<<account, contract>>] =
                IF is_full THEN StakerInfoNone ELSE r.info,
            !.CurrentEraInfo = era_info_unstake_amount(@, r.entries),
            !.ContractStake[id] =
                IF is_registered(s, contract)
                THEN contract_stake_unstake(@, r.entries, ps.era, ps.period_number)
                ELSE @]

unstake_checked(s, account, contract, amount, amt, r) ==
    LET ps == s.ActiveProtocolState
        period == ps.period_number
        info0 == s.StakerInfo[<<account, contract>>]
        registered == is_registered(s, contract)
        ledger == s.Ledger[account]
        fail(e) == UnstakeResult(e, s, StakeAmountDefault, 0)
    IN  IF ~staking_info_exists(info0) THEN fail("NoStakingInfo")
        ELSE IF info0.staked.period # period THEN fail("UnstakeFromPastPeriod")
        ELSE IF total_staked_amount(info0) < amount /\ registered
        THEN fail("UnstakeAmountTooLarge")
        ELSE IF stake_unstake_argument_check(ledger, ps.era, period) # "Ok"
        THEN fail("UnclaimedRewards")
        ELSE IF staked_amount(ledger, period) < amt
        THEN fail("UnstakeAmountTooLarge")
        ELSE UnstakeResult("Ok",
                unstake_writes(s, account, contract, r, is_empty(r.info.staked)),
                max_entry(r.entries),
                IF registered THEN r.bonus_status ELSE info0.bonus_status)

\* shared by unstake, move_stake and unstake_from_unregistered
inner_unstake_amount(s, account, contract, amount, amt) ==
    unstake_checked(s, account, contract, amount, amt,
        staking_info_unstake(s.StakerInfo[<<account, contract>>], amt,
            s.ActiveProtocolState.era, s.ActiveProtocolState.subperiod))


\* a variant that honours the amount also for an unregistered contract
inner_unstake_by_amount(s, account, contract, amount) ==
    inner_unstake_amount(s, account, contract, amount,
        expected_unstake_amount(s.StakerInfo[<<account, contract>>], amount))

inner_unstake(s, account, contract, amount) ==
    inner_unstake_amount(s, account, contract, amount,
        IF is_registered(s, contract)
        THEN expected_unstake_amount(s.StakerInfo[<<account, contract>>], amount)
        ELSE total_staked_amount(s.StakerInfo[<<account, contract>>]))

\* a dispatch result carries no stake amount
call_result(r) == [err |-> r.err, st |-> r.st, reward |-> 0]

unstake(s, account, contract, amount) ==
    IF s.ActiveProtocolState.maintenance THEN Err("Disabled", s)
    ELSE IF account = Root THEN Err("BadOrigin", s)
    ELSE IF amount = 0 THEN Err("ZeroAmount", s)
    ELSE IF ~is_registered(s, contract) THEN Err("ContractNotFound", s)
    ELSE call_result(inner_unstake(s, account, contract, amount))


\* a variant that does not ask whether the contract is still registered
unstake_from_unregistered_any(s, account, contract) ==
    IF s.ActiveProtocolState.maintenance THEN Err("Disabled", s)
    ELSE IF account = Root THEN Err("BadOrigin", s)
    ELSE call_result(inner_unstake(s, account, contract, 0))

unstake_from_unregistered(s, account, contract) ==
    IF s.ActiveProtocolState.maintenance THEN Err("Disabled", s)
    ELSE IF account = Root THEN Err("BadOrigin", s)
    ELSE IF is_registered(s, contract) THEN Err("ContractStillActive", s)
    ELSE call_result(inner_unstake(s, account, contract, 0))

\* a variant that stakes the moved amount as it was unstaked
move_unstaked_keeping_voting(s, account, destination, r1) ==
    IF r1.err # "Ok" THEN Err(r1.err, s)
    ELSE inner_stake(r1.st, account, destination,
            [r1.stake_amount EXCEPT !.era = 0, !.period = 0],
            r1.bonus_status)

\* the second half of move_stake, given the result of its inner_unstake
move_unstaked(s, account, destination, r1) ==
    IF r1.err # "Ok" THEN Err(r1.err, s)
    ELSE inner_stake(r1.st, account, destination,
            [(IF r1.bonus_status = 0 /\ r1.stake_amount.voting > 0
              THEN convert_bonus_into_regular_stake(r1.stake_amount)
              ELSE r1.stake_amount) EXCEPT !.era = 0, !.period = 0],
            r1.bonus_status)

move_stake(s, account, source, destination, amount) ==
    IF s.ActiveProtocolState.maintenance THEN Err("Disabled", s)
    ELSE IF account = Root THEN Err("BadOrigin", s)
    ELSE IF source = destination THEN Err("SameContracts", s)
    ELSE IF ~is_registered(s, destination) THEN Err("ContractNotFound", s)
    ELSE IF amount = 0 THEN Err("ZeroAmount", s)
    ELSE move_unstaked(s, account, destination,
            inner_unstake(s, account, source, amount))

\* ------------------------------------------------------------------------
\* Reward claims
\* ------------------------------------------------------------------------
era_reward_span_index(era) == era - (era % EraRewardSpanLength)

\* eras 1..Len(EraRewards) have a reward entry
span_exists(s, index) == Len(s.EraRewards) >= Max(index, 1)

span_last_era(s, index) == Min(index + EraRewardSpanLength - 1, Len(s.EraRewards))

\* stake of the ledger in a past era (EraStakePairIter)
ledger_stake_in_era(ledger, era) ==
    IF ~is_empty(ledger.staked) /\ (is_empty(ledger.staked_future)
                                        \/ era < ledger.staked_future.era)
    THEN total(ledger.staked)
    ELSE total(ledger.staked_future)

RECURSIVE staker_reward_sum(_, _, _, _)
staker_reward_sum(s, ledger, first_era, last_era) ==
    IF first_era > last_era THEN 0
    ELSE perbill_mul(
            perbill_from_rational(ledger_stake_in_era(ledger, first_era),
                                  s.EraRewards[first_era].staked),
            s.EraRewards[first_era].staker_reward_pool)
         + staker_reward_sum(s, ledger, first_era + 1, last_era)

\* a variant that leaves the stake marker on the last claimed era
claim_up_to_era_keeping_last(ledger, era, period_ended, final_era) ==
    IF period_ended /\ era >= final_era
    THEN [ledger EXCEPT !.staked = StakeAmountDefault,
                        !.staked_future = StakeAmountDefault]
    ELSE [ledger EXCEPT
            !.staked = [(IF is_empty(ledger.staked_future)
                         THEN ledger.staked ELSE ledger.staked_future)
                        EXCEPT !.era = era],
            !.staked_future = StakeAmountDefault]

\* AccountLedger::claim_up_to_era
claim_up_to_era(ledger, era, period_ended, final_era) ==
    IF period_ended /\ era >= final_era
    THEN [ledger EXCEPT !.staked = StakeAmountDefault,
                        !.staked_future = StakeAmountDefault]
    ELSE [ledger EXCEPT
            !.staked = [(IF is_empty(ledger.staked_future)
                         THEN ledger.staked ELSE ledger.staked_future)
                        EXCEPT !.era = era + 1],
            !.staked_future = StakeAmountDefault]

claim_staker_rewards(s, account, payout_ok) ==
    IF s.ActiveProtocolState.maintenance THEN Err("Disabled", s)
    ELSE IF account = Root THEN Err("BadOrigin", s)
    ELSE
    LET ps == s.ActiveProtocolState
        ledger == s.Ledger[account]
        period == staked_period(ledger)
        first_era == earliest_staked_era(ledger)
        index == era_reward_span_index(first_era)
        period_ended == period # ps.period_number
        final_era == IF period_ended THEN s.PeriodEnd[period].final_era ELSE 0
        last_period_era == IF period_ended THEN final_era ELSE ps.era - 1
        last_claim_era == Min(span_last_era(s, index), last_period_era)
        reward_sum == staker_reward_sum(s, ledger, first_era, last_claim_era)
        ledger1 == claim_up_to_era(ledger, last_claim_era, period_ended, final_era)
    IN  IF period = 0 THEN Err("NoClaimableRewards", s)
        ELSE IF period < oldest_claimable_period(ps.period_number)
        THEN Err("RewardExpired", s)
        ELSE IF ~span_exists(s, index) THEN Err("NoClaimableRewards", s)
        ELSE IF last_claim_era < first_era THEN Err("NoClaimableRewards", s)
        ELSE IF ~payout_ok THEN Err("RewardPayoutFailed", s)
        ELSE [err |-> "Ok", st |-> update_ledger(s, account, ledger1),
              reward |-> reward_sum]

\* a variant that pays the bonus and leaves the StakerInfo entry in place
claim_bonus_reward_keeping_entry(s, account, contract, payout_ok) ==
    IF s.ActiveProtocolState.maintenance THEN Err("Disabled", s)
    ELSE IF account = Root THEN Err("BadOrigin", s)
    ELSE
    LET ps == s.ActiveProtocolState
        info == s.StakerInfo[<<account, contract>>]
        period == info.staked.period
        period_end == s.PeriodEnd[period]
        reward == perbill_mul(
                    perbill_from_rational(info_staked_amount(info, "Voting"),
                                          period_end.total_vp_stake),
                    period_end.bonus_reward_pool)
    IN  IF ~staking_info_exists(info) THEN Err("NoClaimableRewards", s)
        ELSE IF period >= ps.period_number THEN Err("NoClaimableRewards", s)
        ELSE IF ~is_bonus_eligible(info) THEN Err("NotEligibleForBonusReward", s)
        ELSE IF period < oldest_claimable_period(ps.period_number)
        THEN Err("RewardExpired", s)
        ELSE IF period_end.total_vp_stake = 0 THEN Err("InternalClaimBonusError", s)
        ELSE IF ~payout_ok THEN Err("RewardPayoutFailed", s)
        ELSE [err |-> "Ok", st |-> s, reward |-> reward]

claim_bonus_reward(s, account, contract, payout_ok) ==
    IF s.ActiveProtocolState.maintenance THEN Err("Disabled", s)
    ELSE IF account = Root THEN Err("BadOrigin", s)
    ELSE
    LET ps == s.ActiveProtocolState
        info == s.StakerInfo[<<account, contract>>]
        period == info.staked.period
        period_end == s.PeriodEnd[period]
        reward == perbill_mul(
                    perbill_from_rational(info_staked_amount(info, "Voting"),
                                          period_end.total_vp_stake),
                    period_end.bonus_reward_pool)
    IN  IF ~staking_info_exists(info) THEN Err("NoClaimableRewards", s)
        ELSE IF period >= ps.period_number THEN Err("NoClaimableRewards", s)
        ELSE IF ~is_bonus_eligible(info) THEN Err("NotEligibleForBonusReward", s)
        ELSE IF period < oldest_claimable_period(ps.period_number)
        THEN Err("RewardExpired", s)
        ELSE IF period_end.total_vp_stake = 0 THEN Err("InternalClaimBonusError", s)
        ELSE IF ~payout_ok THEN Err("RewardPayoutFailed", s)
        ELSE [err |-> "Ok",
              st |-> [s EXCEPT
                        !.StakerInfo[<<account, contract>>] = StakerInfoNone,
                        !.Ledger[account].contract_stake_count =
                            saturating_sub(@, 1)],
              reward |-> reward]

reward_beneficiary(dapp) ==
    IF dapp.beneficiary = "none" THEN dapp.owner ELSE dapp.beneficiary

claim_dapp_reward(s, account, contract, era, payout_ok) ==
    IF s.ActiveProtocolState.maintenance THEN Err("Disabled", s)
    ELSE IF account = Root THEN Err("BadOrigin", s)
    ELSE
    LET ps == s.ActiveProtocolState
        dapp == s.IntegratedDApps[contract]
        tiers == s.DAppTiers[era]
    IN  IF ~dapp.registered THEN Err("ContractNotFound", s)
        ELSE IF era >= ps.era THEN Err("InvalidClaimEra", s)
        ELSE IF ~tiers.some THEN Err("NoDAppTierInfo", s)
        ELSE IF tiers.period < oldest_claimable_period(ps.period_number)
        THEN Err("RewardExpired", s)
        ELSE IF dapp.id \notin DOMAIN tiers.dapps THEN Err("NoClaimableRewards", s)
        ELSE IF ~payout_ok THEN Err("RewardPayoutFailed", s)
        ELSE [err |-> "Ok",
              st |-> [s EXCEPT !.DAppTiers[era] = tier_claim_remove(@, dapp.id)],
              reward |-> tier_claim_amount(tiers, dapp.id)]

\* entries the caller may drop: a finished period without bonus, or a
\* period older than the retention threshold
is_expired_entry(info, current_period) ==
    /\ staking_info_exists(info)
    /\ \/ info.staked.period < current_period /\ ~is_bonus_eligible(info)
       \/ info.staked.period < oldest_claimable_period(current_period)

cleanup_expired_entries(s, account) ==
    IF s.ActiveProtocolState.maintenance THEN Err("Disabled", s)
    ELSE IF account = Root THEN Err("BadOrigin", s)
    ELSE
    LET period == s.ActiveProtocolState.period_number
        expired == {c \in DOMAIN s.IntegratedDApps :
                        is_expired_entry(s.StakerInfo[<<account, c>>], period)}
    IN  IF expired = {} THEN Err("NoExpiredEntries", s)
        ELSE Ok([s EXCEPT
                !.StakerInfo =
                    [k \in DOMAIN s.StakerInfo |->
                        IF k[1] = account /\ k[2] \in expired
                        THEN StakerInfoNone ELSE @[k]],
                !.Ledger[account].contract_stake_count =
                    saturating_sub(@, Cardinality(expired))])

\* ------------------------------------------------------------------------
\* Transactional dispatch: an error rolls every storage write back
\* ------------------------------------------------------------------------
with_storage_layer_committing(s, r) == r.st

with_storage_layer(s, r) == IF r.err = "Ok" THEN r.st ELSE s

Dispatch(op, r) ==
    /\ storage' = with_storage_layer(storage, r)
    /\ UNCHANGED block

NextBlock(maxBlock) ==
    /\ block < maxBlock
    /\ block' = block + 1
    /\ storage' = on_initialize(storage, block + 1)
    /\ UNCHANGED balance

MaintenanceMode ==
    \E origin \in Origins, enabled \in BOOLEAN :
        /\ Dispatch("maintenance_mode", maintenance_mode(storage, origin, enabled))
        /\ UNCHANGED balance

Force ==
    \E origin \in Origins, forcing_type \in {"Era", "Subperiod"} :
        /\ Dispatch("force", force(storage, origin, forcing_type, block))
        /\ UNCHANGED balance

Lock(A, Amts) ==
    \E account \in A, amount \in Amts :
        /\ Dispatch("lock", lock(storage, balance, account, amount))
        /\ UNCHANGED balance

Unlock(A, Amts) ==
    \E account \in A, amount \in Amts :
        /\ Dispatch("unlock", unlock(storage, account, amount, block))
        /\ UNCHANGED balance

ClaimUnlocked(A) ==
    \E account \in A :
        /\ Dispatch("claim_unlocked", claim_unlocked(storage, account, block))
        /\ UNCHANGED balance

RelockUnlocking(A) ==
    \E account \in A :
        /\ Dispatch("relock_unlocking", relock_unlocking(storage, account))
        /\ UNCHANGED balance

Register(C) ==
    \E origin \in Origins, contract \in C :
        /\ Dispatch("register", register(storage, origin, "a1", contract))
        /\ UNCHANGED balance

Unregister(C) ==
    \E origin \in Origins, contract \in C :
        /\ Dispatch("unregister", unregister(storage, origin, contract))
        /\ UNCHANGED balance

Stake(A, C, Amts) ==
    \E account \in A, contract \in C, amount \in Amts :
        /\ Dispatch("stake", stake(storage, account, contract, amount))
        /\ UNCHANGED balance

Unstake(A, C, Amts) ==
    \E account \in A, contract \in C, amount \in Amts :
        /\ Dispatch("unstake", unstake(storage, account, contract, amount))
        /\ UNCHANGED balance

MoveStake(A, C, Amts) ==
    \E account \in A, source \in C, destination \in C, amount \in Amts :
        /\ Dispatch("move_stake",
                    move_stake(storage, account, source, destination, amount))
        /\ UNCHANGED balance

UnstakeFromUnregistered(A, C) ==
    \E account \in A, contract \in C :
        /\ Dispatch("unstake_from_unregistered",
                    unstake_from_unregistered(storage, account, contract))
        /\ UNCHANGED balance

\* a payout mints the reward into the beneficiary's balance
PayoutUpTo(cap, op, r, beneficiary) ==
    /\ r.err = "Ok" => balance[beneficiary] + r.reward <= cap
    /\ Dispatch(op, r)
    /\ balance' = IF r.err = "Ok"
                  THEN [balance EXCEPT ![beneficiary] = @ + r.reward]
                  ELSE balance

Payout(op, r, beneficiary) == PayoutUpTo(MaxBalance, op, r, beneficiary)

ClaimStakerRewardsUpTo(cap, A) ==
    \E account \in A, payout_ok \in BOOLEAN :
        PayoutUpTo(cap, "claim_staker_rewards",
               claim_staker_rewards(storage, account, payout_ok), account)

ClaimStakerRewards(A) == ClaimStakerRewardsUpTo(MaxBalance, A)

ClaimBonusRewardUpTo(cap, A, C) ==
    \E account \in A, contract \in C, payout_ok \in BOOLEAN :
        PayoutUpTo(cap, "claim_bonus_reward",
               claim_bonus_reward(storage, account, contract, payout_ok), account)

ClaimBonusReward(A, C) == ClaimBonusRewardUpTo(MaxBalance, A, C)

ClaimDappRewardUpTo(cap, A, C) ==
    \E account \in A, contract \in C, era \in 1..storage.ActiveProtocolState.era,
       payout_ok \in BOOLEAN :
        PayoutUpTo(cap, "claim_dapp_reward",
               claim_dapp_reward(storage, account, contract, era, payout_ok),
               reward_beneficiary(storage.IntegratedDApps[contract]))

ClaimDappReward(A, C) == ClaimDappRewardUpTo(MaxBalance, A, C)

CleanupExpiredEntries(A) ==
    \E account \in A :
        /\ Dispatch("cleanup_expired_entries",
                    cleanup_expired_entries(storage, account))
        /\ UNCHANGED balance

SetDappRewardBeneficiary(C, B) ==
    \E origin \in Origins, contract \in C, beneficiary \in B :
        /\ Dispatch("set_dapp_reward_beneficiary",
                    set_dapp_reward_beneficiary(storage, origin, contract, beneficiary))
        /\ UNCHANGED balance

SetDappOwner(C, O) ==
    \E origin \in Origins, contract \in C, new_owner \in O :
        /\ Dispatch("set_dapp_owner",
                    set_dapp_owner(storage, origin, contract, new_owner))
        /\ UNCHANGED balance

UnbondAndUnstake(A, Amts) ==
    \E account \in A, amount \in Amts :
        /\ Dispatch("unbond_and_unstake",
                    unbond_and_unstake(storage, account, "c1", amount, block))
        /\ UNCHANGED balance

WithdrawUnbonded(A) ==
    \E account \in A :
        /\ Dispatch("withdraw_unbonded", withdraw_unbonded(storage, account, block))
        /\ UNCHANGED balance

Init ==
    /\ storage = InitStorage
    /\ block = 1
    /\ balance = InitialBalance

\* the calls that move an account's locked funds
LedgerCalls(A, Amts) ==
    \/ Lock(A, Amts)
    \/ Unlock(A, Amts)
    \/ ClaimUnlocked(A)
    \/ RelockUnlocking(A)

StakingCalls(A, C, Amts, MoveAmts) ==
    \/ Stake(A, C, Amts)
    \/ Unstake(A, C, Amts)
    \/ MoveStake(A, C, MoveAmts)
    \/ UnstakeFromUnregistered(A, C)

ClaimCalls(A, C) ==
    \/ ClaimStakerRewards(A)
    \/ ClaimBonusReward(A, C)
    \/ ClaimDappReward(A, C)
    \/ CleanupExpiredEntries(A)

RegistryCalls(C) ==
    \/ Register(C)
    \/ Unregister(C)

AdminCalls ==
    \/ MaintenanceMode
    \/ Force
    \/ SetDappRewardBeneficiary({"c1"}, {"a2"})
    \/ SetDappOwner({"c1"}, {"a1"})
    \/ UnbondAndUnstake({"a1"}, {3})
    \/ WithdrawUnbonded({"a1"})

Next ==
    \/ NextBlock(MaxBlock)
    \/ LedgerCalls({"a1"}, SpecAmounts)
    \/ StakingCalls({"a1"}, Contracts, SpecAmounts, SpecMoveAmounts)
    \/ ClaimCalls({"a1"}, {"c1"})
    \/ RegistryCalls(Contracts)
    \/ AdminCalls

Spec == Init /\ [][Next]_vars

\* ------------------------------------------------------------------------
\* Protocol clock alone: the hook, maintenance mode and force
\* ------------------------------------------------------------------------
NextClock ==
    \/ NextBlock(MaxClockBlock)
    \/ MaintenanceMode
    \/ Force

SpecClock == Init /\ [][NextClock]_vars

\* the clock without force
NextCycle ==
    \/ NextBlock(MaxClockBlock)
    \/ MaintenanceMode

SpecCycle == Init /\ [][NextCycle]_vars

\* ------------------------------------------------------------------------
\* One staker on two registered contracts, over more than a period
\* ------------------------------------------------------------------------
RegisteredStorage ==
    register(register(InitStorage, Root, "a1", "c1").st, Root, "a1", "c2").st

InitStaking ==
    /\ storage = RegisteredStorage
    /\ block = 1
    /\ balance = InitialBalance

NextStaking ==
    \/ NextBlock(MaxStakingBlock)
    \/ LedgerCalls({"a1"}, {3})
    \/ StakingCalls({"a1"}, Contracts, StakingAmounts, {2})
    \/ ClaimStakerRewards({"a1"})
    \/ ClaimBonusReward({"a1"}, Contracts)
    \/ CleanupExpiredEntries({"a1"})

SpecStaking == InitStaking /\ [][NextStaking]_vars

\* ------------------------------------------------------------------------
\* Two stakers with locked funds, within one period
\* ------------------------------------------------------------------------
LockedStorage ==
    lock(lock(RegisteredStorage, InitialBalance, "a1", 5).st,
         InitialBalance, "a2", 3).st

InitTwo ==
    /\ storage = LockedStorage
    /\ block = 1
    /\ balance = InitialBalance

NextTwo ==
    \/ NextBlock(MaxTwoBlock)
    \/ StakingCalls({"a1"}, Contracts, TwoAmounts, {2})
    \/ StakingCalls({"a2"}, {"c1"}, {3}, {3})
    \/ Unregister({"c1"})
    \/ ClaimStakerRewards(Accounts)

SpecTwo == InitTwo /\ [][NextTwo]_vars

\* ------------------------------------------------------------------------
\* Tier assignment over three dApps and two tiers of two slots
\* ------------------------------------------------------------------------
TierContracts == {"c1", "c2", "c3"}

TierDAppIds == 0..(MaxTierDApps - 1)

TierDAppId(contract) ==
    IF contract = "c1" THEN 0 ELSE IF contract = "c2" THEN 1 ELSE 2

\* the amounts staked on a dApp: none, below every threshold, within
\* tier 1, one below and exactly at the tier 0 threshold, above it
TierStakes == {0, 5, 15, 19, 20, 25}

TiersTierConfig ==
    [slots_per_tier |-> <<2, 2>>,
     tier_thresholds |-> <<20, 10>>,
     reward_portion |-> <<500000000, 500000000>>]

\* the amounts were staked in the voting subperiod of period 1; the stakers
\* behind them are left out, the tier assignment reads only ContractStake
\* and TierConfig
TierContractStake(amount) ==
    IF amount = 0 THEN ContractStakeDefault
    ELSE contract_stake_stake(ContractStakeDefault,
            [voting |-> amount, build_and_earn |-> 0, era |-> 0, period |-> 0],
            1, 1)

TierStorage(stakes) ==
    [InitStorage EXCEPT
        !.NextDAppId = MaxTierDApps,
        !.IntegratedDApps =
            [c \in TierContracts |->
                [registered |-> TRUE, id |-> TierDAppId(c), owner |-> "a1",
                 beneficiary |-> IF c = "c2" THEN "a2" ELSE "none"]],
        !.ContractStake = [i \in TierDAppIds |-> TierContractStake(stakes[i])],
        !.TierConfig = TiersTierConfig]

InitTiers ==
    /\ \E stakes \in [TierDAppIds -> TierStakes] : storage = TierStorage(stakes)
    /\ block = 1
    /\ balance = InitialBalance

NextTiers ==
    \/ NextBlock(MaxTierBlock)
    \/ ClaimDappRewardUpTo(MaxTierBalance, {"a2"}, TierContracts)

SpecTiers == InitTiers /\ [][NextTiers]_vars


\* ------------------------------------------------------------------------
\* Tier records of dApps that are unregistered afterwards
\* ------------------------------------------------------------------------
\* two dApps with a tier 0 stake and one with a tier 1 stake
RetiredStakes == [i \in TierDAppIds |-> IF i = 2 THEN 15 ELSE 25]

InitRetired ==
    /\ storage = TierStorage(RetiredStakes)
    /\ block = 1
    /\ balance = InitialBalance

NextRetired ==
    \/ NextBlock(MaxTierBlock)
    \/ Unregister(TierContracts)
    \/ ClaimDappRewardUpTo(MaxTierBalance, {"a2"}, TierContracts)

SpecRetired == InitRetired /\ [][NextRetired]_vars


\* ------------------------------------------------------------------------
\* Tier assignment under every number of slots, none included
\* ------------------------------------------------------------------------
SlotChoices == {0, 1, 2, 3}

InitSlots ==
    /\ \E stakes \in [TierDAppIds -> TierStakes], slots \in SlotChoices \X SlotChoices :
            storage = [TierStorage(stakes) EXCEPT
                            !.TierConfig.slots_per_tier = <<slots[1], slots[2]>>]
    /\ block = 1
    /\ balance = InitialBalance

NextSlots == NextBlock(MaxTierBlock)

SpecSlots == InitSlots /\ [][NextSlots]_vars


\* ------------------------------------------------------------------------
\* The clock under force, with the safeguard as genesis left it
\* ------------------------------------------------------------------------
\* GenesisConfig::safeguard: on unless the configuration says otherwise
genesis_safeguard(configured) ==
    IF configured = "None" THEN TRUE ELSE configured = "SomeTrue"

InitForce ==
    /\ \E configured \in {"None", "SomeTrue", "SomeFalse"} :
            storage = [InitStorage EXCEPT !.Safeguard = genesis_safeguard(configured)]
    /\ block = 1
    /\ balance = InitialBalance

NextForce ==
    \/ NextBlock(MaxClockBlock)
    \/ Force

SpecForce == InitForce /\ [][NextForce]_vars


\* ------------------------------------------------------------------------
\* A staker on a contract that is unregistered, into the next period
\* ------------------------------------------------------------------------
NextGone ==
    \/ NextBlock(MaxExitBlock)
    \/ Stake({"a1"}, Contracts, {2})
    \/ Unstake({"a1"}, {"c1"}, {2})
    \/ MoveStake({"a1"}, Contracts, {2})
    \/ Unregister({"c1"})
    \/ UnstakeFromUnregistered({"a1"}, {"c1"})
    \/ ClaimStakerRewardsUpTo(MaxExpiryBalance, {"a1"})

SpecGone == InitTwo /\ [][NextGone]_vars


\* ------------------------------------------------------------------------
\* The locked and unlocking funds of two accounts
\* ------------------------------------------------------------------------
NextLocks ==
    \/ NextBlock(MaxChunkBlock)
    \/ LedgerCalls(Accounts, {2, 3})

SpecLocks == Init /\ [][NextLocks]_vars


\* ------------------------------------------------------------------------
\* One staker and one contract more than an account may stake on
\* ------------------------------------------------------------------------
CapContracts == {"c1", "c2", "c3"}

CapBalance == [a \in Accounts |-> IF a = "a1" THEN MaxBalance ELSE 0]

\* three registered contracts, and a1 has locked its balance
CapStorage ==
    lock([InitStorage EXCEPT
            !.NextDAppId = Cardinality(CapContracts),
            !.IntegratedDApps =
                [c \in CapContracts |->
                    [registered |-> TRUE, id |-> TierDAppId(c), owner |-> "a2",
                     beneficiary |-> "none"]],
            !.ContractStake =
                [i \in {TierDAppId(c) : c \in CapContracts} |-> ContractStakeDefault],
            !.StakerInfo = [k \in Accounts \X CapContracts |-> StakerInfoNone]],
         CapBalance, "a1", MaxBalance).st

InitCap ==
    /\ storage = CapStorage
    /\ block = 1
    /\ balance = CapBalance

NextCap ==
    \/ NextBlock(MaxExitBlock)
    \/ Stake({"a1"}, CapContracts, {2})
    \/ MoveStake({"a1"}, CapContracts, {2})
    \/ Unlock({"a1"}, {MaxBalance})
    \/ ClaimUnlocked({"a1"})
    \/ ClaimStakerRewardsUpTo(MaxExpiryBalance, {"a1"})

SpecCap == InitCap /\ [][NextCap]_vars

\* ------------------------------------------------------------------------
\* The registry alone, with one contract more than it has places
\* ------------------------------------------------------------------------
RegistryContracts == {"c1", "c2", "c3"}

RegistryStorage ==
    [InitStorage EXCEPT !.IntegratedDApps = [c \in RegistryContracts |-> DAppNone]]

InitRegistry ==
    /\ storage = RegistryStorage
    /\ block = 1
    /\ balance = InitialBalance

NextRegistry ==
    \/ NextBlock(MaxBlock)
    \/ MaintenanceMode
    \/ RegistryCalls(RegistryContracts)
    \/ SetDappRewardBeneficiary(RegistryContracts, {"a2"})

SpecRegistry == InitRegistry /\ [][NextRegistry]_vars

\* ------------------------------------------------------------------------
\* One staker on one contract, until the rewards of period 1 have expired
\* ------------------------------------------------------------------------
NextExpiry ==
    \/ NextBlock(MaxExpiryBlock)
    \/ Stake({"a2"}, {"c1"}, {3})
    \/ ClaimStakerRewardsUpTo(MaxExpiryBalance, {"a2"})
    \/ ClaimBonusRewardUpTo(MaxExpiryBalance, {"a2"}, {"c1"})
    \/ ClaimDappRewardUpTo(MaxExpiryBalance, {"a2"}, {"c1"})

SpecExpiry == InitTwo /\ [][NextExpiry]_vars



\* ------------------------------------------------------------------------
\* One staker who unlocks, stays into period 2 and leaves the protocol
\* ------------------------------------------------------------------------
NextExit ==
    \/ NextBlock(MaxExitBlock)
    \/ Stake({"a1"}, {"c1"}, {3})
    \/ Unlock({"a1"}, {3})
    \/ ClaimUnlocked({"a1"})
    \/ ClaimStakerRewardsUpTo(MaxExpiryBalance, {"a1"})

SpecExit == InitTwo /\ [][NextExit]_vars

\* ------------------------------------------------------------------------
\* One account that unlocks in small amounts over several blocks
\* ------------------------------------------------------------------------
InitChunks ==
    /\ storage = InitStorage
    /\ block = 1
    /\ balance = [a \in Accounts |-> IF a = "a1" THEN MaxChunkBalance ELSE 0]

NextChunks ==
    \/ NextBlock(MaxChunkBlock)
    \/ Lock({"a1"}, {MaxChunkBalance})
    \/ Unlock({"a1"}, {1, 2})
    \/ ClaimUnlocked({"a1"})
    \/ RelockUnlocking({"a1"})

SpecChunks == InitChunks /\ [][NextChunks]_vars


\* ------------------------------------------------------------------------
\* Properties
\* ------------------------------------------------------------------------
ProtocolState == storage.ActiveProtocolState

CurrentPeriod == storage.ActiveProtocolState.period_number

\* errors a stake call raises before it looks at the stakeable funds
StakeEarlierErrors ==
    {"Disabled", "ContractNotFound", "PeriodEndsInNextEra", "UnclaimedRewards"}

\* C1: in every reachable state each account's amount staked for the current
\* period is at most its active locked amount; a stake of more than locked
\* minus already-staked fails (with UnavailableStakeFunds once the earlier
\* checks pass), and a successful unlock leaves the staked amount covered.
C1_StakedWithinLocked ==
    \A account \in Accounts :
        LET ledger == storage.Ledger[account]
            staked_now == staked_amount(ledger, CurrentPeriod)
        IN  /\ staked_now <= active_locked_amount(ledger)
            /\ \A contract \in Contracts, amount \in 1..MaxBalance :
                    amount > active_locked_amount(ledger) - staked_now =>
                        stake(storage, account, contract, amount).err
                            \in StakeEarlierErrors \cup {"UnavailableStakeFunds"}
            /\ \A amount \in 0..MaxBalance :
                    LET r == unlock(storage, account, amount, block)
                        after == r.st.Ledger[account]
                    IN  r.err = "Ok" =>
                            /\ staked_amount(after, CurrentPeriod) = staked_now
                            /\ staked_now <= active_locked_amount(after)
                            /\ active_locked_amount(ledger) - active_locked_amount(after)
                                   <= active_locked_amount(ledger) - staked_now

\* a1 has staked everything that is still locked after an unlock, in a later
\* era, and a further stake is refused for lack of funds
C1_Witness ==
    LET ledger == storage.Ledger["a1"]
    IN  /\ ProtocolState.era >= 3
        /\ active_locked_amount(ledger) > 0
        /\ staked_amount(ledger, CurrentPeriod) = active_locked_amount(ledger)
        /\ ledger.unlocking # <<>>
        /\ stake(storage, "a1", "c1", 2).err = "UnavailableStakeFunds"

\* C2: within one period the amounts staked for the current period, summed
\* over all account ledgers, equal EraInfo's total staked amount for the
\* next era.
C2_LedgersMatchEraInfo ==
    LET ledger_sum ==
            staked_amount(storage.Ledger["a1"], CurrentPeriod)
                + staked_amount(storage.Ledger["a2"], CurrentPeriod)
    IN  ledger_sum = total(storage.CurrentEraInfo.next_stake_amount)

\* c1 was unregistered while a2 still stakes on it; a1 staked 5 in era 2 and
\* has since taken 3 back, keeping a stake on c2 only
C2_Witness ==
    /\ ~is_registered(storage, "c1")
    /\ staking_info_exists(storage.StakerInfo[<<"a2", "c1">>])
    /\ ~staking_info_exists(storage.StakerInfo[<<"a1", "c1">>])
    /\ staking_info_exists(storage.StakerInfo[<<"a1", "c2">>])
    /\ ProtocolState.era >= 3
    /\ storage.EraRewards[2].staked = 8
    /\ total(storage.CurrentEraInfo.next_stake_amount) = 5

\* P holds of the result of every dispatchable other than maintenance_mode,
\* for every origin and input, on storage s in block now
AllCallsSatisfy(P(_), s, now) ==
    /\ \A origin \in Origins, contract \in Contracts :
        /\ P(register(s, origin, "a1", contract))
        /\ P(unregister(s, origin, contract))
        /\ \A who \in Accounts :
            /\ P(set_dapp_owner(s, origin, contract, who))
            /\ P(set_dapp_reward_beneficiary(s, origin, contract, who))
        /\ \A forcing_type \in {"Era", "Subperiod"} :
            P(force(s, origin, forcing_type, now))
    /\ \A account \in Origins :
        /\ P(claim_unlocked(s, account, now))
        /\ P(withdraw_unbonded(s, account, now))
        /\ P(relock_unlocking(s, account))
        /\ P(cleanup_expired_entries(s, account))
        /\ \A payout_ok \in BOOLEAN :
            P(claim_staker_rewards(s, account, payout_ok))
        /\ \A amount \in 0..MaxAmount :
            /\ P(lock(s, balance, account, amount))
            /\ P(unlock(s, account, amount, now))
        /\ \A contract \in Contracts :
            /\ P(unstake_from_unregistered(s, account, contract))
            /\ \A payout_ok \in BOOLEAN :
                /\ P(claim_bonus_reward(s, account, contract, payout_ok))
                /\ \A era \in 1..s.ActiveProtocolState.era :
                    P(claim_dapp_reward(s, account, contract, era, payout_ok))
            /\ \A amount \in 0..MaxAmount :
                /\ P(stake(s, account, contract, amount))
                /\ P(unstake(s, account, contract, amount))
                /\ P(unbond_and_unstake(s, account, contract, amount, now))
                /\ \A destination \in Contracts :
                    P(move_stake(s, account, contract, destination, amount))

\* a claim the payout hook rejects succeeds when repeated and pays the
\* reward a successful first attempt would have paid
ClaimCanBeRepeated(failed, again, first) ==
    failed.err = "RewardPayoutFailed" =>
        /\ again.err = "Ok"
        /\ again.reward = first.reward
        /\ again.st = first.st

RejectedClaimsCanBeRepeated ==
    \A account \in Accounts :
        /\ LET failed == claim_staker_rewards(storage, account, FALSE)
               s1 == with_storage_layer(storage, failed)
           IN  ClaimCanBeRepeated(failed,
                    claim_staker_rewards(s1, account, TRUE),
                    claim_staker_rewards(storage, account, TRUE))
        /\ \A contract \in Contracts :
            /\ LET failed == claim_bonus_reward(storage, account, contract, FALSE)
                   s1 == with_storage_layer(storage, failed)
               IN  ClaimCanBeRepeated(failed,
                        claim_bonus_reward(s1, account, contract, TRUE),
                        claim_bonus_reward(storage, account, contract, TRUE))
            /\ \A era \in 1..Len(storage.DAppTiers) :
                LET failed == claim_dapp_reward(storage, account, contract, era, FALSE)
                    s1 == with_storage_layer(storage, failed)
                IN  ClaimCanBeRepeated(failed,
                        claim_dapp_reward(s1, account, contract, era, TRUE),
                        claim_dapp_reward(storage, account, contract, era, TRUE))

\* the storage a call leaves behind is the storage it found when it fails
ErrorKeepsStorage(r) ==
    r.err # "Ok" => with_storage_layer(storage, r) = storage

C4_Original ==
    [][LET ps == storage.ActiveProtocolState
           ps2 == storage'.ActiveProtocolState
       IN  /\ block' # block =>
                IF block' < ps.next_era_start
                THEN storage' = storage
                ELSE ps2.era = ps.era + 1
           /\ ps2.era # ps.era => block' = block + 1 /\ ps2.era = ps.era + 1]_vars

\* C4 (amended): with maintenance mode disabled, on_initialize is a storage
\* no-op before next_era_start and advances the era by exactly one from
\* next_era_start on; with maintenance mode enabled it is a storage no-op on
\* every block; the era changes only through the hook.
C4_HookAdvancesEra ==
    [][LET ps == storage.ActiveProtocolState
           ps2 == storage'.ActiveProtocolState
       IN  /\ block' # block =>
                IF ps.maintenance \/ block' < ps.next_era_start
                THEN storage' = storage
                ELSE ps2.era = ps.era + 1
           /\ ps2.era # ps.era => block' = block + 1 /\ ps2.era = ps.era + 1]_vars

\* the hook ran on a block past next_era_start and left the era in place
C4_Witness ==
    /\ ProtocolState.maintenance
    /\ block > ProtocolState.next_era_start
    /\ ProtocolState.era >= 2

era_length(subperiod) ==
    IF subperiod = "Voting"
    THEN StandardEraLength * StandardErasPerVotingSubperiod
    ELSE StandardEraLength

\* what an era change does to the subperiod cycle
CycleStep(ps, ps2) ==
    /\ ps2.era = ps.era + 1
    /\ ps2.next_era_start = block' + era_length(ps2.subperiod)
    /\ IF ps.subperiod = "Voting"
       THEN /\ ps2.subperiod = "BuildAndEarn"
            /\ ps2.period_number = ps.period_number
            /\ ps2.next_subperiod_start_era =
                    ps2.era + StandardErasPerBuildAndEarnSubperiod
       ELSE IF ps2.era = ps.next_subperiod_start_era
       THEN /\ ps2.subperiod = "Voting"
            /\ ps2.period_number = ps.period_number + 1
            /\ ps2.next_subperiod_start_era = ps2.era + 1
       ELSE /\ ps2.subperiod = "BuildAndEarn"
            /\ ps2.period_number = ps.period_number
            /\ ps2.next_subperiod_start_era = ps.next_subperiod_start_era

CycleStutter(ps, ps2) ==
    /\ ps2.subperiod = ps.subperiod
    /\ ps2.period_number = ps.period_number
    /\ ps2.next_subperiod_start_era = ps.next_subperiod_start_era
    /\ ps2.next_era_start = ps.next_era_start

\* C5 as stated: without force every era ends exactly at its scheduled
\* block (Voting after eras_per_voting_subperiod x blocks_per_era blocks, a
\* Build&Earn era after blocks_per_era blocks), Voting is followed by exactly
\* eras_per_build_and_earn_subperiod Build&Earn eras and then Voting again,
\* and the period number grows by one exactly on Build&Earn -> Voting.
C5_Original ==
    [][LET ps == storage.ActiveProtocolState
           ps2 == storage'.ActiveProtocolState
       IN  /\ block' # block => (ps2.era # ps.era <=> block' = ps.next_era_start)
           /\ block < ps.next_era_start
           /\ IF ps2.era # ps.era THEN CycleStep(ps, ps2)
              ELSE CycleStutter(ps, ps2)]_vars

\* C5 (amended): without force and with maintenance mode disabled every era
\* ends exactly at its scheduled block; while maintenance mode is enabled the
\* running era is prolonged, and it ends on the first block, at or after its
\* scheduled end, on which maintenance mode is disabled.  The order of the
\* subperiods, the number of Build&Earn eras, the length scheduled for each
\* new era and the period number rule are as stated.
C5_FixedCycle ==
    [][LET ps == storage.ActiveProtocolState
           ps2 == storage'.ActiveProtocolState
       IN  /\ block' # block =>
                (ps2.era # ps.era <=>
                    ~ps.maintenance /\ block' >= ps.next_era_start)
           /\ ~ps.maintenance /\ ~ps2.maintenance /\ block' # block
                    /\ block < ps.next_era_start =>
                (ps2.era # ps.era <=> block' = ps.next_era_start)
           /\ IF ps2.era # ps.era THEN CycleStep(ps, ps2)
              ELSE CycleStutter(ps, ps2)]_vars

\* period 2 has started later than block 6, where it starts when no era is
\* prolonged: 1 + 2 blocks of Voting + 3 Build&Earn eras of 1 block
C5_Witness ==
    /\ ProtocolState.period_number = 2
    /\ ProtocolState.subperiod = "Voting"
    /\ ProtocolState.era = 2 + StandardErasPerBuildAndEarnSubperiod
    /\ ProtocolState.next_era_start = block + blocks_per_voting_period
    /\ block > 1 + blocks_per_voting_period
                 + StandardErasPerBuildAndEarnSubperiod * StandardEraLength

\* C6: the era never decreases and next_subperiod_start_era is greater than
\* the era in every state, also after force(Era) and force(Subperiod).
C6_EraMonotonic ==
    [][LET ps == storage.ActiveProtocolState
           ps2 == storage'.ActiveProtocolState
       IN  /\ ps2.era >= ps.era
           /\ ps.next_subperiod_start_era > ps.era
           /\ ps2.next_subperiod_start_era > ps2.era]_vars

\* force(Subperiod) has cut the first Build&Earn era short
C6_Witness ==
    /\ ProtocolState.era = 2
    /\ ProtocolState.subperiod = "BuildAndEarn"
    /\ ProtocolState.next_subperiod_start_era = 3
    /\ ProtocolState.next_era_start = block + 1

\* the contract's stake entries of the current and the next era, and
\* EraInfo's stake amounts of the current and the next era
StakeView(s, contract) ==
    LET ps == s.ActiveProtocolState
        cs == s.ContractStake[s.IntegratedDApps[contract].id]
    IN  <<contract_stake_get(cs, ps.era, ps.period_number),
          contract_stake_get(cs, ps.era + 1, ps.period_number),
          s.CurrentEraInfo.current_stake_amount,
          s.CurrentEraInfo.next_stake_amount>>

RoundTrip(s, account, contract, amount) ==
    unstake(stake(s, account, contract, amount).st, account, contract, amount)

\* C7: stake(contract, x) followed by unstake(contract, x) in the same era,
\* once or repeatedly, leaves the contract's stake entries of the current
\* and the next era and EraInfo's current and next stake amounts as they
\* were, in Voting and in the first and the later Build&Earn eras.
C7_StakeUnstakeRoundTrip ==
    \A account \in Accounts, contract \in Contracts, amount \in 1..MaxAmount :
        stake(storage, account, contract, amount).err = "Ok" =>
            LET once == RoundTrip(storage, account, contract, amount)
                twice == RoundTrip(once.st, account, contract, amount)
            IN  /\ once.err = "Ok"
                /\ StakeView(once.st, contract) = StakeView(storage, contract)
                /\ stake(once.st, account, contract, amount).err = "Ok"
                /\ twice.err = "Ok"
                /\ StakeView(twice.st, contract) = StakeView(storage, contract)

\* a later Build&Earn era in which a1 can add to a stake on c1 that it made
\* in an earlier era, next to a2's stake on the same contract
C7_Witness ==
    /\ ProtocolState.subperiod = "BuildAndEarn"
    /\ ProtocolState.era = 3
    /\ staking_info_exists(storage.StakerInfo[<<"a2", "c1">>])
    /\ staking_info_exists(storage.StakerInfo[<<"a1", "c1">>])
    /\ storage.StakerInfo[<<"a1", "c1">>].staked.era <= 3
    /\ total(storage.CurrentEraInfo.current_stake_amount) >= 5
    /\ stake(storage, "a1", "c1", 2).err = "Ok"

\* the entry's stake of the current period, nothing when there is none
CurrentStake(s, account, contract) ==
    LET info == s.StakerInfo[<<account, contract>>]
    IN  IF staking_info_exists(info)
            /\ info.staked.period = s.ActiveProtocolState.period_number
        THEN info.staked ELSE StakeAmountDefault

\* C8: for every stored StakerInfo entry the Voting and the Build&Earn
\* amounts add up to the total staked amount; a successful stake adds the
\* amount to the total and to the component of the running subperiod, a
\* successful unstake takes the unstaked amount off the total, and each
\* changes the total by the sum of the changes of the two components.
C8_ComponentsSumToTotal ==
    \A account \in Accounts, contract \in Contracts :
        LET info == storage.StakerInfo[<<account, contract>>]
            before == CurrentStake(storage, account, contract)
        IN  /\ staking_info_exists(info) =>
                info_staked_amount(info, "Voting")
                    + info_staked_amount(info, "BuildAndEarn")
                        = total_staked_amount(info)
            /\ \A amount \in 1..MaxAmount :
                /\ LET r == stake(storage, account, contract, amount)
                       after == r.st.StakerInfo[<<account, contract>>]
                       subperiod == ProtocolState.subperiod
                   IN  r.err = "Ok" =>
                        /\ total_staked_amount(after) - total(before) = amount
                        /\ info_staked_amount(after, subperiod)
                                - for_type(before, subperiod) = amount
                        /\ total_staked_amount(after) - total(before) =
                              (info_staked_amount(after, "Voting") - before.voting)
                            + (info_staked_amount(after, "BuildAndEarn")
                                    - before.build_and_earn)
                /\ LET r == unstake(storage, account, contract, amount)
                       after == r.st.StakerInfo[<<account, contract>>]
                   IN  r.err = "Ok" =>
                        /\ total(before) - total_staked_amount(after) =
                                expected_unstake_amount(info, amount)
                        /\ total(before) - total_staked_amount(after) =
                              (before.voting - info_staked_amount(after, "Voting"))
                            + (before.build_and_earn
                                    - info_staked_amount(after, "BuildAndEarn"))

\* a1's entry on c2 holds an amount staked in Voting and an amount staked
\* in Build&Earn, and a1 can unstake from it
C8_Witness ==
    LET info == storage.StakerInfo[<<"a1", "c2">>]
    IN  /\ info_staked_amount(info, "Voting") > 0
        /\ info_staked_amount(info, "BuildAndEarn") > 0
        /\ ProtocolState.era >= 2
        /\ unstake(storage, "a1", "c2", 3).err = "Ok"

\* C9: a successful unlock(amount) releases the whole active locked amount
\* when the clamped amount would leave less than MinimumLockedAmount locked,
\* and min(amount, unlockable) otherwise; the released amount becomes an
\* unlocking chunk, and no account's active locked amount is ever non-zero
\* and below MinimumLockedAmount.
C9_UnlockAmount ==
    \A account \in Accounts :
        LET ledger == storage.Ledger[account]
            locked == active_locked_amount(ledger)
        IN  /\ locked = 0 \/ locked >= MinimumLockedAmount
            /\ \A amount \in 0..MaxBalance :
                LET r == unlock(storage, account, amount, block)
                    after == r.st.Ledger[account]
                    released == locked - active_locked_amount(after)
                    clamped == Min(amount, unlockable_amount(ledger, CurrentPeriod))
                IN  r.err = "Ok" =>
                        /\ released =
                                IF locked - clamped < MinimumLockedAmount
                                THEN locked ELSE clamped
                        /\ unlocking_amount(after) = unlocking_amount(ledger) + released
                        /\ active_locked_amount(after) = 0
                                \/ active_locked_amount(after) >= MinimumLockedAmount

\* a1 asked for at most MaxAmount and all 5 it had locked were unlocked
C9_Witness ==
    LET ledger == storage.Ledger["a1"]
    IN  /\ active_locked_amount(ledger) = 0
        /\ \E i \in 1..Len(ledger.unlocking) : ledger.unlocking[i].amount = 5
    
\* the call fails with Disabled and leaves the storage as it found it
DisabledKeepsStorage(r) ==
    r.err = "Disabled" /\ with_storage_layer(storage, r) = storage

\* C10: while maintenance mode is enabled every dispatchable other than
\* maintenance_mode fails with Disabled and changes no storage, the
\* on_initialize hook changes no storage, so the era does not advance, and
\* maintenance_mode(false) from root succeeds and ends the maintenance.
C10_MaintenanceDisablesCalls ==
    storage.ActiveProtocolState.maintenance =>
        /\ AllCallsSatisfy(DisabledKeepsStorage, storage, block)
        /\ on_initialize(storage, block + 1) = storage
        /\ maintenance_mode(storage, Root, FALSE).err = "Ok"
        /\ maintenance_mode(storage, Root, FALSE).st =
                [storage EXCEPT !.ActiveProtocolState.maintenance = FALSE]

\* maintenance mode is on in a block past next_era_start, while a1 holds a
\* stake on a registered contract
C10_Witness ==
    /\ ProtocolState.maintenance
    /\ block >= ProtocolState.next_era_start
    /\ staked_amount(storage.Ledger["a1"], CurrentPeriod) > 0
    /\ is_registered(storage, "c1")
    /\ staking_info_exists(storage.StakerInfo[<<"a1", "c1">>])

ZeroAmountError(r) == r.err = "ZeroAmount" /\ r.st = storage

\* C11: with the pallet enabled, unlock(0), stake(contract, 0) and
\* unstake(contract, 0) of a signed account fail with ZeroAmount and change
\* no storage, whatever the account's ledger and stakes and whether or not
\* the contract is registered; unlock(amount > 0) fails with ZeroAmount as
\* well when the account's unlockable amount is zero.
C11_ZeroAmount ==
    ~storage.ActiveProtocolState.maintenance =>
        \A account \in Accounts :
            /\ ZeroAmountError(unlock(storage, account, 0, block))
            /\ \A contract \in Contracts :
                /\ ZeroAmountError(stake(storage, account, contract, 0))
                /\ ZeroAmountError(unstake(storage, account, contract, 0))
            /\ unlockable_amount(storage.Ledger[account], CurrentPeriod) = 0 =>
                    \A amount \in 1..MaxAmount :
                        ZeroAmountError(unlock(storage, account, amount, block))

\* everything a1 has locked is staked, one contract is registered and the
\* other is not
C11_Witness ==
    /\ ~storage.ActiveProtocolState.maintenance
    /\ storage.Ledger["a1"].locked > 0
    /\ staked_amount(storage.Ledger["a1"], CurrentPeriod) = storage.Ledger["a1"].locked
    /\ is_registered(storage, "c1")
    /\ ~is_registered(storage, "c2")
    /\ storage.StakerInfo[<<"a1", "c1">>].staked.period = CurrentPeriod
    /\ unlock(storage, "a1", MaxAmount, block).err = "ZeroAmount"

\* ------------------------------------------------------------------------
\* Tier assignment properties
\* ------------------------------------------------------------------------
dapp_stake_in(s, id, era) ==
    total(contract_stake_get(s.ContractStake[id], era, s.ActiveProtocolState.period_number))

\* the records the tier assignment can produce for an era of the current
\* period, one per order of the dApps of equal stake
TierAssignments(era) ==
    {tier_assignment_for(storage, era, ProtocolState.period_number,
                         DAppRewardPool, order) :
        order \in sorted_orders(storage, era, ProtocolState.period_number)}

TierIds == 0..(Len(storage.TierConfig.slots_per_tier) - 1)

TierThreshold(tier_id) == storage.TierConfig.tier_thresholds[tier_id + 1]

TierSlots(tier_id) == storage.TierConfig.slots_per_tier[tier_id + 1]

DAppsInTier(record, tier_id) ==
    {id \in DOMAIN record.dapps : record.dapps[id].tier = tier_id}

TierIsFull(record, tier_id) ==
    Cardinality(DAppsInTier(record, tier_id)) = TierSlots(tier_id)

\* the records stored for the eras of the current period hold what the tier
\* assignment produced, less the dApps that claimed
StoredTiersAreAssigned ==
    \A era \in 1..Len(storage.DAppTiers) :
        storage.DAppTiers[era].some
            /\ storage.DAppTiers[era].period = ProtocolState.period_number =>
            \E record \in TierAssignments(era) :
                /\ DOMAIN storage.DAppTiers[era].dapps \subseteq DOMAIN record.dapps
                /\ \A id \in DOMAIN storage.DAppTiers[era].dapps :
                        storage.DAppTiers[era].dapps[id] = record.dapps[id]
                /\ storage.DAppTiers[era].rewards = record.rewards
                /\ storage.DAppTiers[era].rank_rewards = record.rank_rewards

\* C12 as stated: a dApp is placed only in the first tier whose threshold
\* its stake clears; one that does not fit there is in no tier at all.
C12_Original ==
    \A record \in TierAssignments(ProtocolState.era) :
        \A id \in DOMAIN record.dapps :
            \A tier_id \in TierIds :
                tier_id < record.dapps[id].tier =>
                    dapp_stake_in(storage, id, ProtocolState.era) < TierThreshold(tier_id)

\* C12: tier assignment falls through. A placed dApp clears the threshold
\* of its tier, no tier holds more dApps than it has slots, and a dApp sits
\* below a tier whose threshold it clears only when that tier is full; it
\* then takes the maximum rank when it reaches the upper bound of the tier
\* it fell into. A staked dApp is left out only when its stake is below the
\* threshold of every tier that still has a free slot. The stored records
\* are such assignments.
C12_Fallthrough ==
    /\ StoredTiersAreAssigned
    /\ \A record \in TierAssignments(ProtocolState.era) :
        /\ \A tier_id \in TierIds :
                Cardinality(DAppsInTier(record, tier_id)) <= TierSlots(tier_id)
        /\ \A id \in DOMAIN record.dapps :
            /\ record.dapps[id].tier \in TierIds
            /\ dapp_stake_in(storage, id, ProtocolState.era)
                    >= TierThreshold(record.dapps[id].tier)
            /\ \A tier_id \in TierIds :
                    /\ tier_id < record.dapps[id].tier
                    /\ dapp_stake_in(storage, id, ProtocolState.era)
                            >= TierThreshold(tier_id)
                    => /\ TierIsFull(record, tier_id)
                       /\ tier_id + 1 = record.dapps[id].tier =>
                            record.dapps[id].rank =
                                find_rank(TierThreshold(tier_id + 1),
                                          TierThreshold(tier_id),
                                          TierThreshold(tier_id))
        /\ \A id \in staked_dapps(storage, ProtocolState.era,
                                   ProtocolState.period_number) :
                id \notin DOMAIN record.dapps =>
                    \A tier_id \in TierIds :
                        \/ dapp_stake_in(storage, id, ProtocolState.era)
                                < TierThreshold(tier_id)
                        \/ TierIsFull(record, tier_id)

\* three dApps at or above the tier 0 threshold with two slots in tier 0:
\* the record of era 2 was stored with two of them in tier 0 and the third
\* in tier 1 at the maximum rank
C12_Witness ==
    /\ Len(storage.DAppTiers) >= 2
    /\ ProtocolState.period_number = 1
    /\ storage.DAppTiers[2].some
    /\ TierSlots(0) = 2
    /\ \A id \in TierDAppIds : dapp_stake_in(storage, id, 2) >= TierThreshold(0)
    /\ DOMAIN storage.DAppTiers[2].dapps = TierDAppIds
    /\ Cardinality(DAppsInTier(storage.DAppTiers[2], 0)) = 2
    /\ \E id \in TierDAppIds :
            storage.DAppTiers[2].dapps[id] = [tier |-> 1, rank |-> MAX_RANK]

\* ------------------------------------------------------------------------
\* Staker rewards
\* ------------------------------------------------------------------------
StakedPeriodEnded(ledger) == staked_period(ledger) # ProtocolState.period_number

\* the last era a claim pays: the end of the reward span of the first era,
\* the era before the current one, the final era of an ended period
LastClaimableEra(ledger) ==
    Min(era_reward_span_index(earliest_staked_era(ledger)) + EraRewardSpanLength - 1,
        Min(ProtocolState.era - 1,
            IF StakedPeriodEnded(ledger)
            THEN storage.PeriodEnd[staked_period(ledger)].final_era
            ELSE ProtocolState.era - 1))

IsFullClaim(ledger) ==
    /\ StakedPeriodEnded(ledger)
    /\ LastClaimableEra(ledger) = storage.PeriodEnd[staked_period(ledger)].final_era

StakerClaimIsPaid(account, ledger, r) ==
    /\ earliest_staked_era(ledger) <= LastClaimableEra(ledger)
    /\ r.reward = staker_reward_sum(storage, ledger, earliest_staked_era(ledger),
                                    LastClaimableEra(ledger))
    /\ is_empty(r.st.Ledger[account].staked_future)
    /\ IF IsFullClaim(ledger)
       THEN r.st.Ledger[account].staked = StakeAmountDefault
       ELSE /\ r.st.Ledger[account].staked.era = LastClaimableEra(ledger) + 1
            /\ total(r.st.Ledger[account].staked)
                    = ledger_stake_in_era(ledger, LastClaimableEra(ledger) + 1)
    \* the next claim starts after the eras this one paid
    /\ claim_staker_rewards(r.st, account, TRUE).err = "Ok" =>
            earliest_staked_era(r.st.Ledger[account]) = LastClaimableEra(ledger) + 1

StakerClaims ==
    ~ProtocolState.maintenance =>
        \A account \in Accounts :
            /\ claim_staker_rewards(storage, account, TRUE).err = "Ok" =>
                    StakerClaimIsPaid(account, storage.Ledger[account],
                                      claim_staker_rewards(storage, account, TRUE))
            /\ \/ staked_period(storage.Ledger[account]) = 0
               \/ earliest_staked_era(storage.Ledger[account]) >= ProtocolState.era
               => claim_staker_rewards(storage, account, TRUE).err = "NoClaimableRewards"

\* a claim step mints the reward to the staker
StakerClaimMints ==
    \A account \in Accounts :
        /\ claim_staker_rewards(storage, account, TRUE).err = "Ok"
        /\ storage' = claim_staker_rewards(storage, account, TRUE).st
        => balance' = [balance EXCEPT
                        ![account] = @ + claim_staker_rewards(storage, account, TRUE).reward]

\* the stake marker of a ledger never moves back, and a new stake starts
\* no earlier than the current era
StakeMarkerAdvances ==
    \A account \in Accounts :
        /\ earliest_staked_era(storage'.Ledger[account]) = 0
            \/ earliest_staked_era(storage'.Ledger[account])
                    >= earliest_staked_era(storage.Ledger[account])
        /\ earliest_staked_era(storage.Ledger[account]) = 0
            /\ earliest_staked_era(storage'.Ledger[account]) > 0
            => earliest_staked_era(storage'.Ledger[account]) >= ProtocolState.era

\* C13: a successful claim_staker_rewards pays every era from the earliest
\* unclaimed staked era to the last claimable one (the end of the reward
\* span, current era - 1, the final era of an ended period) the Perbill
\* share of the era's staker pool, mints the sum to the staker and moves the
\* stake marker past the last paid era, or clears the stake once an ended
\* period is fully claimed. The marker never moves back, so no era is paid
\* twice, every claim advances it, and a ledger without a fully elapsed
\* staked era gets NoClaimableRewards.
C13_StakerRewards ==
    /\ []StakerClaims
    /\ [][StakerClaimMints /\ StakeMarkerAdvances]_vars

\* a1 was paid era 2 of period 1, which has ended since; the next claim pays
\* era 3 only, the last era of the reward span, and leaves the final era 4
\* of the period to the claim after it
C13_Witness ==
    /\ ProtocolState.period_number = 2
    /\ staked_period(storage.Ledger["a1"]) = 1
    /\ balance["a1"] = InitialBalance["a1"] + 1
    /\ earliest_staked_era(storage.Ledger["a1"]) = EraRewardSpanLength - 1
    /\ LastClaimableEra(storage.Ledger["a1"]) = EraRewardSpanLength - 1
    /\ storage.PeriodEnd[1].final_era = EraRewardSpanLength
    /\ claim_staker_rewards(storage, "a1", TRUE).err = "Ok"
    /\ earliest_staked_era(claim_staker_rewards(storage, "a1", TRUE).st.Ledger["a1"])
            = EraRewardSpanLength

\* ------------------------------------------------------------------------
\* Moving stake
\* ------------------------------------------------------------------------
\* the staked amount of an entry in the current period
StakedNow(info) ==
    IF staking_info_exists(info) /\ info.staked.period = CurrentPeriod
    THEN info.staked ELSE StakeAmountDefault

\* the bonus status the stake taken by a move carries
MovedBonusStatus(account, source, amount) ==
    inner_unstake(storage, account, source, amount).bonus_status

\* the whole moved amount arrived as build_and_earn stake; the voting stake
\* and the bonus status of the destination are what they were
ArrivesAsBuildAndEarn(source0, destination0, source1, destination1) ==
    /\ StakedNow(destination1).voting = StakedNow(destination0).voting
    /\ StakedNow(destination1).build_and_earn - StakedNow(destination0).build_and_earn
            = total(StakedNow(source0)) - total(StakedNow(source1))
    /\ total(StakedNow(source0)) > total(StakedNow(source1))
    /\ staking_info_exists(destination0) /\ destination0.staked.period = CurrentPeriod =>
            destination1.bonus_status = destination0.bonus_status

MoveForfeitsBonus(account, source, destination, amount, r) ==
    r.err = "Ok" =>
        /\ \* a partial move in Build&Earn that takes voting stake
           /\ ProtocolState.subperiod = "BuildAndEarn"
           /\ staking_info_exists(r.st.StakerInfo[<<account, source>>])
           /\ r.st.StakerInfo[<<account, source>>].staked.voting
                    < storage.StakerInfo[<<account, source>>].staked.voting
           => /\ r.st.StakerInfo[<<account, source>>].bonus_status = 0
              /\ MovedBonusStatus(account, source, amount) = 0
        /\ MovedBonusStatus(account, source, amount) = 0 =>
                ArrivesAsBuildAndEarn(storage.StakerInfo[<<account, source>>],
                                      storage.StakerInfo[<<account, destination>>],
                                      r.st.StakerInfo[<<account, source>>],
                                      r.st.StakerInfo[<<account, destination>>])

\* C14: with MaxBonusSafeMovesPerPeriod = 0, a partial move_stake in
\* Build&Earn that takes voting stake of the source leaves the source with
\* bonus_status 0; and whenever the moved stake carries bonus_status 0, all
\* of it is added to the destination's build_and_earn stake, the
\* destination's voting stake and bonus_status stay as they were, and the
\* destination gains exactly what the source lost.
C14_MoveForfeitsBonus ==
    /\ MaxBonusSafeMovesPerPeriod = 0
    /\ \A account \in Accounts, source \in Contracts, destination \in Contracts,
          amount \in 1..MaxBalance :
            MoveForfeitsBonus(account, source, destination, amount,
                move_stake(storage, account, source, destination, amount))

\* a1 moved 2 of its voting stake on c1 to c2 in Build&Earn: c1 kept
\* voting stake without bonus, c2 holds the 2 as build_and_earn stake
C14_Witness ==
    /\ ProtocolState.subperiod = "BuildAndEarn"
    /\ storage.StakerInfo[<<"a1", "c1">>].bonus_status = 0
    /\ StakedNow(storage.StakerInfo[<<"a1", "c1">>]).voting = 3
    /\ StakedNow(storage.StakerInfo[<<"a1", "c1">>]).build_and_earn = 0
    /\ StakedNow(storage.StakerInfo[<<"a1", "c2">>]).build_and_earn = 2
    /\ StakedNow(storage.StakerInfo[<<"a1", "c2">>]).voting = 0
    /\ storage.StakerInfo[<<"a1", "c2">>].bonus_status = 0

\* ------------------------------------------------------------------------
\* Registry
\* ------------------------------------------------------------------------
RegistryOf(s) == DOMAIN s.IntegratedDApps

RegisteredIn(s) == {c \in RegistryOf(s) : s.IntegratedDApps[c].registered}

\* at most MaxNumberOfContracts dApps, each with an id of its own that
\* NextDAppId has passed
RegistryWithinCapacity ==
    /\ Cardinality(RegisteredIn(storage)) <= MaxNumberOfContracts
    /\ storage.NextDAppId <= DAppIdMAX
    /\ \A c \in RegisteredIn(storage) :
            /\ storage.IntegratedDApps[c].id < storage.NextDAppId
            /\ \A d \in RegisteredIn(storage) \ {c} :
                    storage.IntegratedDApps[d].id # storage.IntegratedDApps[c].id

\* what register answers for a contract that is not registered
RegisterAnswers ==
    ~ProtocolState.maintenance =>
        \A contract \in RegistryOf(storage) \ RegisteredIn(storage) :
            /\ register(storage, Root, "a1", contract).err = "ExceededMaxNumberOfContracts"
                    <=> Cardinality(RegisteredIn(storage)) = MaxNumberOfContracts
            /\ register(storage, Root, "a1", contract).err = "NewDAppIdUnavailable"
                    <=> /\ Cardinality(RegisteredIn(storage)) < MaxNumberOfContracts
                        /\ storage.NextDAppId = DAppIdMAX
            /\ register(storage, Root, "a1", contract).err = "Ok" =>
                    /\ register(storage, Root, "a1", contract).st.IntegratedDApps[contract].id
                            = storage.NextDAppId
                    /\ register(storage, Root, "a1", contract).st.NextDAppId
                            = storage.NextDAppId + 1

\* a step registers at most one contract, under the id NextDAppId had, or
\* unregisters one; NextDAppId moves with registrations only
RegistrySteps ==
    /\ storage'.NextDAppId = storage.NextDAppId
            + Cardinality(RegisteredIn(storage') \ RegisteredIn(storage))
    /\ \A c \in RegisteredIn(storage') :
            \/ /\ c \in RegisteredIn(storage)
               /\ storage'.IntegratedDApps[c].id = storage.IntegratedDApps[c].id
            \/ /\ storage'.IntegratedDApps[c].id = storage.NextDAppId
               /\ RegisteredIn(storage) \subseteq RegisteredIn(storage')
    /\ \A c \in RegisteredIn(storage) \ RegisteredIn(storage') :
            /\ storage'.IntegratedDApps = unregister(storage, Root, c).st.IntegratedDApps
            /\ Cardinality(RegisteredIn(storage'))
                    = Cardinality(RegisteredIn(storage)) - 1

\* C15: the registry never holds more than MaxNumberOfContracts dApps;
\* register of a new contract fails with ExceededMaxNumberOfContracts
\* exactly when the registry is full and, with a free place, with
\* NewDAppIdUnavailable exactly when NextDAppId has reached DAppId::MAX;
\* a successful register assigns NextDAppId and increments it, an
\* unregister frees one place, and no id is given out twice.
C15_Registry ==
    /\ [](RegistryWithinCapacity /\ RegisterAnswers)
    /\ [][RegistrySteps]_vars

\* c1 was registered, unregistered and registered again under a new id;
\* the ids are used up although the registry has a free place
C15_Witness ==
    /\ RegisteredIn(storage) = {"c1"}
    /\ storage.IntegratedDApps["c1"].id = 1
    /\ storage.NextDAppId = DAppIdMAX
    /\ ~ProtocolState.maintenance
    /\ register(storage, Root, "a1", "c3").err = "NewDAppIdUnavailable"

\* ------------------------------------------------------------------------
\* Locking
\* ------------------------------------------------------------------------
\* what a lock call can still lock: the total balance less the locked and
\* the unlocking funds, at most the amount asked for
EffectiveLockAmount(account, amount) ==
    Min(amount,
        balance[account]
            - (storage.Ledger[account].locked
                + chunks_sum(storage.Ledger[account].unlocking)))

LockAnswers(account, amount, r) ==
    /\ r.err \in {"Ok", "ZeroAmount", "LockedAmountBelowThreshold"}
    /\ r.err = "ZeroAmount" <=> EffectiveLockAmount(account, amount) = 0
    /\ r.err = "LockedAmountBelowThreshold" <=>
            /\ EffectiveLockAmount(account, amount) > 0
            /\ storage.Ledger[account].locked + EffectiveLockAmount(account, amount)
                    < MinimumLockedAmount
    /\ r.err = "Ok" =>
            /\ r.st.Ledger[account].locked
                    = storage.Ledger[account].locked + EffectiveLockAmount(account, amount)
            /\ r.st.Ledger[account].unlocking = storage.Ledger[account].unlocking
            /\ balance_frozen(r.st, account)
                    = balance_frozen(storage, account) + EffectiveLockAmount(account, amount)
            /\ balance_frozen(r.st, account) <= balance[account]
            /\ r.st.CurrentEraInfo.total_locked
                    = storage.CurrentEraInfo.total_locked
                        + EffectiveLockAmount(account, amount)

Caller == "a2"

DAppClaim(contract, era) == claim_dapp_reward(storage, Caller, contract, era, TRUE)

\* the era has a tier record that has not expired
HasTierRecord(era) ==
    /\ era <= Len(storage.DAppTiers)
    /\ storage.DAppTiers[era].some
    /\ storage.DAppTiers[era].period >= oldest_claimable_period(CurrentPeriod)

DAppClaimIsPaid(id, era, r) ==
    /\ HasTierRecord(era)
    /\ id \in DOMAIN storage.DAppTiers[era].dapps
    /\ r.reward =
            storage.DAppTiers[era].rewards[storage.DAppTiers[era].dapps[id].tier + 1]
                + storage.DAppTiers[era].dapps[id].rank
                    * storage.DAppTiers[era].rank_rewards[
                            storage.DAppTiers[era].dapps[id].tier + 1]
    /\ DOMAIN r.st.DAppTiers[era].dapps = DOMAIN storage.DAppTiers[era].dapps \ {id}
    /\ \A other \in DOMAIN r.st.DAppTiers[era].dapps :
            r.st.DAppTiers[era].dapps[other] = storage.DAppTiers[era].dapps[other]
    /\ \A era2 \in DOMAIN storage.DAppTiers :
            era2 # era => r.st.DAppTiers[era2] = storage.DAppTiers[era2]

DAppClaims ==
    ~ProtocolState.maintenance =>
        \A contract \in RegisteredIn(storage), era \in 1..(ProtocolState.era + 1) :
            /\ era >= ProtocolState.era => DAppClaim(contract, era).err = "InvalidClaimEra"
            /\ era < ProtocolState.era /\ HasTierRecord(era)
                    /\ storage.IntegratedDApps[contract].id
                            \notin DOMAIN storage.DAppTiers[era].dapps
                    => DAppClaim(contract, era).err = "NoClaimableRewards"
            /\ DAppClaim(contract, era).err = "Ok" =>
                    /\ DAppClaimIsPaid(storage.IntegratedDApps[contract].id, era,
                                       DAppClaim(contract, era))
                    /\ claim_dapp_reward(DAppClaim(contract, era).st, Caller,
                                         contract, era, TRUE).err = "NoClaimableRewards"

\* a claim step pays the beneficiary, the owner when none is set
DAppClaimPays ==
    \A contract \in RegisteredIn(storage), era \in 1..ProtocolState.era :
        /\ DAppClaim(contract, era).err = "Ok"
        /\ storage' = DAppClaim(contract, era).st
        => balance' =
            [balance EXCEPT
                ![IF storage.IntegratedDApps[contract].beneficiary = "none"
                  THEN storage.IntegratedDApps[contract].owner
                  ELSE storage.IntegratedDApps[contract].beneficiary]
                    = @ + DAppClaim(contract, era).reward]

\* a dApp never comes back into a stored tier record
TierRecordsOnlyShrink ==
    \A era \in DOMAIN storage.DAppTiers :
        /\ era \in DOMAIN storage'.DAppTiers
        /\ DOMAIN storage'.DAppTiers[era].dapps \subseteq DOMAIN storage.DAppTiers[era].dapps

\* C17: a successful claim_dapp_reward pays slot reward + rank x rank
\* reward of the dApp's tier to the beneficiary (the owner when none is
\* set) and removes the dApp from the record of that era alone, so the claim
\* repeated for the era fails with NoClaimableRewards while the other eras
\* stay as they were; a dApp never returns into a record, so it is paid at
\* most once per era; a claim for the current or a later era fails with
\* InvalidClaimEra, one for a dApp without a place in the era's record with
\* NoClaimableRewards.
C17_DAppRewardOnce ==
    /\ []DAppClaims
    /\ [][DAppClaimPays /\ TierRecordsOnlyShrink]_vars

\* c2 staked 19, sat alone in tier 1 with rank 9 and was paid 10 + 9 x 1
\* for era 2, to its beneficiary a2; its reward of era 3 is still there
C17_Witness ==
    /\ Len(storage.DAppTiers) >= 3
    /\ storage.DAppTiers[2].some /\ storage.DAppTiers[3].some
    /\ storage.IntegratedDApps["c2"].id = 1
    /\ storage.IntegratedDApps["c2"].beneficiary = "a2"
    /\ 1 \notin DOMAIN storage.DAppTiers[2].dapps
    /\ 1 \in DOMAIN storage.DAppTiers[3].dapps
    /\ storage.DAppTiers[3].dapps[1] = [tier |-> 1, rank |-> 9]
    /\ storage.DAppTiers[2].rewards = <<10, 10>>
    /\ storage.DAppTiers[2].rank_rewards = <<0, 1>>
    /\ balance["a2"] = InitialBalance["a2"] + 19
    /\ DAppClaim("c2", 2).err = "NoClaimableRewards"
    /\ DAppClaim("c2", 3).err = "Ok"

\* ------------------------------------------------------------------------
\* Bonus rewards
\* ------------------------------------------------------------------------
BonusClaim(account, contract) == claim_bonus_reward(storage, account, contract, TRUE)

Position(account, contract) == storage.StakerInfo[<<account, contract>>]

BonusClaimIsPaid(account, contract, r) ==
    /\ Position(account, contract).staked.period \in 1..(CurrentPeriod - 1)
    /\ Position(account, contract).bonus_status > 0
    /\ r.reward =
            perbill_mul(
                perbill_from_rational(
                    Position(account, contract).staked.voting,
                    storage.PeriodEnd[Position(account, contract).staked.period].total_vp_stake),
                storage.PeriodEnd[Position(account, contract).staked.period].bonus_reward_pool)
    /\ r.st.StakerInfo[<<account, contract>>] = StakerInfoNone
    /\ r.st.Ledger[account].contract_stake_count
            = storage.Ledger[account].contract_stake_count - 1
    /\ claim_bonus_reward(r.st, account, contract, TRUE).err = "NoClaimableRewards"

BonusClaims ==
    ~ProtocolState.maintenance =>
        \A account \in Accounts, contract \in Contracts :
            /\ BonusClaim(account, contract).err = "Ok" =>
                    BonusClaimIsPaid(account, contract, BonusClaim(account, contract))
            /\ \/ Position(account, contract).staked.period = 0
               \/ Position(account, contract).staked.period = CurrentPeriod
               => BonusClaim(account, contract).err = "NoClaimableRewards"
            /\ /\ Position(account, contract).staked.period \in 1..(CurrentPeriod - 1)
               /\ Position(account, contract).bonus_status = 0
               => BonusClaim(account, contract).err = "NotEligibleForBonusReward"
            \* a position opened by a stake in Build&Earn has no bonus
            /\ /\ ProtocolState.subperiod = "BuildAndEarn"
               /\ Position(account, contract).staked.period # CurrentPeriod
               => \A amount \in 1..MaxBalance :
                    stake(storage, account, contract, amount).err = "Ok" =>
                        /\ stake(storage, account, contract, amount)
                                .st.StakerInfo[<<account, contract>>].bonus_status = 0
                        /\ stake(storage, account, contract, amount)
                                .st.StakerInfo[<<account, contract>>].staked.voting = 0

\* a claim step mints the bonus to the staker
BonusClaimMints ==
    \A account \in Accounts, contract \in Contracts :
        /\ BonusClaim(account, contract).err = "Ok"
        /\ storage' = BonusClaim(account, contract).st
        => balance' = [balance EXCEPT ![account] = @ + BonusClaim(account, contract).reward]

\* a position never turns into one of an earlier period, and a new one is
\* of the current period: a position of an ended period that was removed
\* does not come back
PositionsMoveForward ==
    \A account \in Accounts, contract \in Contracts :
        \/ storage'.StakerInfo[<<account, contract>>].staked.period = 0
        \/ storage'.StakerInfo[<<account, contract>>].staked.period
                = Position(account, contract).staked.period
        \/ storage'.StakerInfo[<<account, contract>>].staked.period
                = storage'.ActiveProtocolState.period_number

Expired(period) == CurrentPeriod > period + RewardRetentionInPeriods

StakerRewardsRetention(account) ==
    staked_period(storage.Ledger[account]) # 0 =>
        /\ Expired(staked_period(storage.Ledger[account])) =>
                claim_staker_rewards(storage, account, TRUE).err = "RewardExpired"
        /\ /\ ~Expired(staked_period(storage.Ledger[account]))
           /\ earliest_staked_era(storage.Ledger[account]) < ProtocolState.era
           => claim_staker_rewards(storage, account, TRUE).err = "Ok"

BonusRewardRetention(account, contract) ==
    /\ Position(account, contract).staked.period \in 1..(CurrentPeriod - 1)
    /\ Position(account, contract).bonus_status > 0
    => BonusClaim(account, contract).err =
            IF Expired(Position(account, contract).staked.period)
            THEN "RewardExpired" ELSE "Ok"

DAppRewardRetention(contract, era) ==
    /\ storage.DAppTiers[era].some
    /\ storage.IntegratedDApps[contract].id \in DOMAIN storage.DAppTiers[era].dapps
    => claim_dapp_reward(storage, "a2", contract, era, TRUE).err =
            IF Expired(storage.DAppTiers[era].period) THEN "RewardExpired" ELSE "Ok"

\* a stake of an account whose staker rewards have expired is accepted as
\* if the account had no stake, and the ledger holds the new stake alone
StakeAfterExpiry(account, contract, amount) ==
    /\ staked_period(storage.Ledger[account]) # 0
    /\ Expired(staked_period(storage.Ledger[account]))
    /\ amount >= MinimumStakeAmount
    /\ amount <= storage.Ledger[account].locked
    => /\ stake(storage, account, contract, amount).err = "Ok"
       /\ is_empty(stake(storage, account, contract, amount).st.Ledger[account].staked)
       /\ stake(storage, account, contract, amount).st.Ledger[account].staked_future
            = [voting |-> IF ProtocolState.subperiod = "Voting" THEN amount ELSE 0,
               build_and_earn |-> IF ProtocolState.subperiod = "Voting" THEN 0 ELSE amount,
               era |-> ProtocolState.era + 1,
               period |-> CurrentPeriod]

FinalEras == {storage.PeriodEnd[p].final_era : p \in DOMAIN storage.PeriodEnd}

\* the eras of the Voting subperiods so far: the first era, and the era
\* after the final era of each period
VotingEras == {1} \cup {e + 1 : e \in FinalEras}

HasRecord(era) == era \in DOMAIN storage.DAppTiers /\ storage.DAppTiers[era].some

\* every past era has an entry in the model's DAppTiers, a record or none
PastEras == 1..(ProtocolState.era - 1)

TierRecordsOfBuildAndEarnEras ==
    /\ DOMAIN storage.DAppTiers = PastEras
    /\ \A era \in PastEras :
        /\ HasRecord(era) <=> era \notin VotingEras
        /\ ~ProtocolState.maintenance /\ ~HasRecord(era) =>
                \A contract \in RegisteredIn(storage) :
                    claim_dapp_reward(storage, "a2", contract, era, TRUE).err
                        = "NoDAppTierInfo"

\* the record of an era is written once, by the transition out of it
TierRecordWrittenOnce ==
    /\ \A era \in PastEras :
            /\ HasRecord(era)' = HasRecord(era)
            /\ storage'.DAppTiers[era].period = storage.DAppTiers[era].period
    /\ storage'.ActiveProtocolState.era # ProtocolState.era =>
            /\ storage'.ActiveProtocolState.era = ProtocolState.era + 1
            /\ Len(storage'.DAppTiers) = ProtocolState.era
            /\ storage'.DAppTiers[ProtocolState.era].some
                    <=> ProtocolState.subperiod = "BuildAndEarn"
            /\ storage'.DAppTiers[ProtocolState.era].some =>
                    storage'.DAppTiers[ProtocolState.era].period = CurrentPeriod

EraInfo == storage.CurrentEraInfo

EraChanges == storage'.ActiveProtocolState.era # ProtocolState.era

PeriodChanges == storage'.ActiveProtocolState.period_number # CurrentPeriod

ZeroStake(era, period) ==
    [voting |-> 0, build_and_earn |-> 0, era |-> era, period |-> period]

\* total_locked and unlocking pass an era boundary unchanged
EraKeepsLocked ==
    EraChanges =>
        /\ storage'.CurrentEraInfo.total_locked = EraInfo.total_locked
        /\ storage'.CurrentEraInfo.unlocking = EraInfo.unlocking

\* at a period boundary both stake amounts start empty in the new period
PeriodResetsStake ==
    EraChanges /\ PeriodChanges =>
        /\ storage'.CurrentEraInfo.current_stake_amount
                = ZeroStake(ProtocolState.era + 1, CurrentPeriod + 1)
        /\ storage'.CurrentEraInfo.next_stake_amount
                = ZeroStake(ProtocolState.era + 2, CurrentPeriod + 1)

\* C21 as stated: within a period the next-era totals restart from zero.
C21_Original ==
    [][EraChanges /\ ~PeriodChanges =>
        /\ storage'.CurrentEraInfo.current_stake_amount = EraInfo.next_stake_amount
        /\ storage'.CurrentEraInfo.next_stake_amount
                = ZeroStake(ProtocolState.era + 2, CurrentPeriod)]_vars

\* within a period the next-era totals are carried over, tagged one era
\* later: stake stays staked until it is unstaked or the period ends
EraCarriesStake ==
    EraChanges /\ ~PeriodChanges =>
        /\ storage'.CurrentEraInfo.current_stake_amount = EraInfo.next_stake_amount
        /\ storage'.CurrentEraInfo.next_stake_amount
                = [EraInfo.next_stake_amount EXCEPT !.era = ProtocolState.era + 2]
        /\ storage'.CurrentEraInfo.next_stake_amount.period = CurrentPeriod

\* C21: at every era boundary that does not start a new period,
\* current_stake_amount takes the value of the previous next_stake_amount
\* and next_stake_amount keeps its totals, tagged with the era after the new
\* one; at a period boundary both are reset to zero and tagged with the new
\* period and the eras new_era and new_era + 1; total_locked and unlocking
\* are not changed by an era transition.
C21_EraInfoRollsForward ==
    [][EraKeepsLocked /\ PeriodResetsStake /\ EraCarriesStake]_vars

\* era 3 has begun inside period 1 with the stake of era 2 carried over
\* into both the current and the next-era totals
C21_Witness ==
    /\ ProtocolState.era = 3
    /\ CurrentPeriod = 1
    /\ EraInfo.current_stake_amount
        = [voting |-> 3, build_and_earn |-> 0, era |-> 3, period |-> 1]
    /\ EraInfo.next_stake_amount
        = [voting |-> 3, build_and_earn |-> 0, era |-> 4, period |-> 1]
    /\ EraInfo.total_locked > 0

\* ------------------------------------------------------------------------
\* Unlocking and staked funds
\* ------------------------------------------------------------------------
\* what the account has staked in the ongoing period
StakedInOngoingPeriod(ledger) ==
    IF ledger.staked_future.period = CurrentPeriod /\ total(ledger.staked_future) > 0
    THEN total(ledger.staked_future)
    ELSE IF ledger.staked.period = CurrentPeriod THEN total(ledger.staked)
    ELSE 0

ClampedUnlock(ledger, amount) ==
    Min(amount, ledger.locked - StakedInOngoingPeriod(ledger))

HasRoomForChunk(ledger) ==
    \/ Len(ledger.unlocking) < MaxUnlockingChunks
    \/ \E i \in 1..Len(ledger.unlocking) :
            ledger.unlocking[i].unlock_block = block + unlocking_period

UnlockAnswers(account, amount, r) ==
    LET ledger == storage.Ledger[account]
        after == r.st.Ledger[account]
        staked == StakedInOngoingPeriod(ledger)
        clamped == ClampedUnlock(ledger, amount)
    IN  /\ r.err = "Ok" =>
            /\ after.locked >= staked
            /\ ledger.locked - after.locked \in {clamped, ledger.locked}
            /\ ledger.locked - after.locked # clamped => staked = 0
        /\ ledger.locked - clamped < MinimumLockedAmount /\ staked > 0 =>
            /\ r.err = "RemainingStakePreventsFullUnlock"
            /\ with_storage_layer(storage, r) = storage
        /\ ledger.locked - clamped >= MinimumLockedAmount /\ clamped > 0
                /\ HasRoomForChunk(ledger) =>
            /\ r.err = "Ok"
            /\ ledger.locked - after.locked = clamped
        /\ staked = 0 /\ amount >= ledger.locked /\ ledger.locked > 0
                /\ HasRoomForChunk(ledger) =>
            /\ r.err = "Ok"
            /\ after.locked = 0

\* C22: unlock never releases staked funds: the amount is clamped to the
\* active locked amount minus what is staked in the ongoing period (stake of
\* a period that has ended does not count), and when the clamped unlock
\* would leave less than MinimumLockedAmount locked while something is still
\* staked the call fails with RemainingStakePreventsFullUnlock and changes
\* nothing, instead of unlocking everything.
C22_UnlockKeepsStake ==
    ~ProtocolState.maintenance =>
        \A account \in Accounts, amount \in 0..MaxBalance :
            UnlockAnswers(account, amount, unlock(storage, account, amount, block))

\* an unlock of a1 was clamped to 2 by its stake; now 3 are locked and 2 of
\* them staked, and a further unlock is refused because of the stake
C22_Witness ==
    LET ledger == storage.Ledger["a1"]
    IN  /\ ledger.locked = 3
        /\ StakedInOngoingPeriod(ledger) = 2
        /\ \E i \in 1..Len(ledger.unlocking) : ledger.unlocking[i].amount = 2
        /\ unlock(storage, "a1", 3, block).err = "RemainingStakePreventsFullUnlock"

\* ------------------------------------------------------------------------
\* Unlocking chunks
\* ------------------------------------------------------------------------
Chunks(account) == storage.Ledger[account].unlocking

ChunkOf(chunks, unlock_block) ==
    {i \in 1..Len(chunks) : chunks[i].unlock_block = unlock_block}

\* at most MaxUnlockingChunks chunks, no two for the same unlock block
ChunksAreBounded ==
    \A account \in Accounts :
        /\ Len(Chunks(account)) <= MaxUnlockingChunks
        /\ \A i, j \in 1..Len(Chunks(account)) :
                Chunks(account)[i].unlock_block = Chunks(account)[j].unlock_block
                    => i = j

\* an unlock the ledger allows: nothing staked, an amount that leaves at
\* least MinimumLockedAmount locked
PlainUnlock(account, amount) ==
    /\ ~ProtocolState.maintenance
    /\ amount > 0
    /\ StakedInOngoingPeriod(storage.Ledger[account]) = 0
    /\ storage.Ledger[account].locked - amount >= MinimumLockedAmount

UnlockChunkAnswers(account, amount, r) ==
    LET chunks == Chunks(account)
        after == r.st.Ledger[account].unlocking
        same == ChunkOf(chunks, block + unlocking_period)
    IN  IF same # {}
        THEN /\ r.err = "Ok"
             /\ Len(after) = Len(chunks)
             /\ \A i \in 1..Len(chunks) :
                    /\ after[i].unlock_block = chunks[i].unlock_block
                    /\ after[i].amount =
                            chunks[i].amount + (IF i \in same THEN amount ELSE 0)
        ELSE IF Len(chunks) = MaxUnlockingChunks
        THEN /\ r.err = "TooManyUnlockingChunks"
             /\ with_storage_layer(storage, r) = storage
        ELSE /\ r.err = "Ok"
             /\ after = Append(chunks,
                    [amount |-> amount, unlock_block |-> block + unlocking_period])

\* C23: an account's list of unlocking chunks never holds more than
\* MaxUnlockingChunks entries, and no two of them have the same
\* unlock_block: an unlock in a block that already has a chunk for the same
\* unlock_block is merged into it, also when the list is full, while an
\* unlock that needs a new chunk in a full list fails with
\* TooManyUnlockingChunks.
C23_UnlockingChunks ==
    /\ ChunksAreBounded
    /\ \A account \in Accounts, amount \in 1..2 :
            PlainUnlock(account, amount) =>
                UnlockChunkAnswers(account, amount,
                    unlock(storage, account, amount, block))

\* the list of a1 is full, its newest chunk holds two unlocks of the
\* current block merged, and the next block's unlock will find no room
C23_Witness ==
    LET chunks == Chunks("a1")
    IN  /\ Len(chunks) = MaxUnlockingChunks
        /\ chunks[MaxUnlockingChunks].unlock_block = block + unlocking_period
        /\ chunks[MaxUnlockingChunks].amount = 3
        /\ PlainUnlock("a1", 1)
        /\ unlock(storage, "a1", 1, block).err = "Ok"
        /\ unlock(storage, "a1", 1, block + 1).err = "TooManyUnlockingChunks"

\* ------------------------------------------------------------------------
\* Claiming unlocked funds
\* ------------------------------------------------------------------------
Matured(chunks) == SelectSeq(chunks, LAMBDA c : c.unlock_block <= block)

NotMatured(chunks) == SelectSeq(chunks, LAMBDA c : c.unlock_block > block)

Frozen(s, account) == balance_frozen(s, account)

\* nothing locked, unlocking or staked is left in the ledger
NothingLeft(ledger) ==
    /\ ledger.locked = 0
    /\ ledger.unlocking = <<>>
    /\ total(ledger.staked) = 0
    /\ total(ledger.staked_future) = 0

PositionsOf(s, account) ==
    {contract \in Contracts : s.StakerInfo[<<account, contract>>] # StakerInfoNone}

ClaimUnlockedAnswers(account, r) ==
    LET ledger == storage.Ledger[account]
        after == r.st.Ledger[account]
        sum == chunks_sum(Matured(ledger.unlocking))
    IN  IF Matured(ledger.unlocking) = <<>>
        THEN /\ r.err = "NoUnlockedChunksToClaim"
             /\ with_storage_layer(storage, r) = storage
        ELSE /\ r.err = "Ok"
             /\ after.unlocking = NotMatured(ledger.unlocking)
             /\ unlocking_amount(after) = unlocking_amount(ledger) - sum
             /\ r.st.CurrentEraInfo.unlocking = storage.CurrentEraInfo.unlocking - sum
             /\ Frozen(r.st, account) = Frozen(storage, account) - sum
             /\ after.locked = ledger.locked
             /\ IF NothingLeft([ledger EXCEPT !.unlocking = NotMatured(@)])
                THEN /\ after = LedgerDefault
                     /\ PositionsOf(r.st, account) = {}
                ELSE r.st.StakerInfo = storage.StakerInfo

\* unlocked funds stay frozen until their chunk has matured
FrozenUntilMatured ==
    \A account \in Accounts :
        total_locked_amount(storage'.Ledger[account]) >=
            storage.Ledger[account].locked
                + chunks_sum(NotMatured(storage.Ledger[account].unlocking))

\* C24: funds unlocked at block b stay frozen and cannot be claimed before
\* block b + unlocking_period: claim_unlocked removes exactly the chunks
\* whose unlock_block is at most the current block, reduces the ledger's
\* unlocking amount, EraInfo.unlocking and the frozen balance by their sum,
\* leaves later chunks in place, fails with NoUnlockedChunksToClaim when no
\* chunk has matured, and removes the ledger together with all StakerInfo
\* entries of the account when nothing locked, unlocking or staked remains.
C24_ClaimUnlocked ==
    /\ [](~ProtocolState.maintenance =>
            \A account \in Accounts :
                ClaimUnlockedAnswers(account, claim_unlocked(storage, account, block)))
    /\ [](\A account \in Accounts :
            \A i \in 1..Len(Chunks(account)) :
                Chunks(account)[i].unlock_block <= block + unlocking_period)
    /\ [][FrozenUntilMatured]_vars

\* a1 has left: its last chunk has been claimed in period 2 and the ledger
\* and its entry on c1 are gone, all of its balance is free again
C24_Witness ==
    /\ CurrentPeriod = 2
    /\ storage.Ledger["a1"] = LedgerDefault
    /\ PositionsOf(storage, "a1") = {}
    /\ storage.CurrentEraInfo.unlocking = 0
    /\ storage.ContractStake[0] # ContractStakeDefault
    /\ Frozen(storage, "a1") = 0

\* ------------------------------------------------------------------------
\* The effect of a stake
\* ------------------------------------------------------------------------
\* the amount in the component of the ongoing subperiod
StakedNowAs(amount) ==
    [voting |-> IF ProtocolState.subperiod = "Voting" THEN amount ELSE 0,
     build_and_earn |-> IF ProtocolState.subperiod = "Voting" THEN 0 ELSE amount]

\* the two components of sa, each increased by the component of amount
Increased(sa, amount) ==
    <<sa.voting + amount.voting, sa.build_and_earn + amount.build_and_earn>>

Components(sa) == <<sa.voting, sa.build_and_earn>>

\* a future entry whose era has come is the stake of the current era
MaturedFuture(ledger) ==
    total(ledger.staked_future) > 0 /\ ledger.staked_future.era <= ProtocolState.era

\* what the ledger has staked for the next era
LedgerNextStake(ledger) ==
    IF total(ledger.staked_future) > 0 THEN ledger.staked_future ELSE ledger.staked

\* the entry of the ongoing period, or an empty one
PositionInPeriod(info) ==
    IF info.staked.period = CurrentPeriod THEN info.staked ELSE StakeAmountDefault

StakeTakesEffectNextEra(account, contract, amount, r) ==
    LET era == ProtocolState.era
        id == storage.IntegratedDApps[contract].id
        ledger == storage.Ledger[account]
        ledger1 == r.st.Ledger[account]
        info == storage.StakerInfo[<<account, contract>>]
        info1 == r.st.StakerInfo[<<account, contract>>]
        cs == storage.ContractStake[id]
        cs1 == r.st.ContractStake[id]
        staked == StakedNowAs(amount)
    IN  \* the current era keeps its stake
        /\ r.st.CurrentEraInfo.current_stake_amount
                = EraInfo.current_stake_amount
        /\ ledger1.staked =
                IF MaturedFuture(ledger) THEN ledger.staked_future ELSE ledger.staked
        /\ Components(contract_stake_get(cs1, era, CurrentPeriod))
                = Components(contract_stake_get(cs, era, CurrentPeriod))
        \* the next era gets the amount
        /\ r.st.CurrentEraInfo.next_stake_amount
                = [EraInfo.next_stake_amount EXCEPT
                        !.voting = @ + staked.voting,
                        !.build_and_earn = @ + staked.build_and_earn]
        /\ ledger1.staked_future.era = era + 1
        /\ ledger1.staked_future.period = CurrentPeriod
        /\ Components(ledger1.staked_future)
                = Increased(LedgerNextStake(ledger), staked)
        /\ cs1.staked_future.era = era + 1
        /\ cs1.staked_future.period = CurrentPeriod
        /\ Components(cs1.staked_future)
                = Increased(contract_stake_get(cs, era + 1, CurrentPeriod), staked)
        /\ info1.staked.era = era + 1
        /\ info1.staked.period = CurrentPeriod
        /\ Components(info1.staked) = Increased(PositionInPeriod(info), staked)

\* C25: a successful stake(amount) takes effect only from era + 1: the
\* current-era stake amounts of EraInfo, of the contract and of the ledger's
\* staked entry stay as they are (apart from a matured staked_future rolling
\* into staked), staked_future is set to (era + 1, current period), and the
\* next-era totals of EraInfo, of the contract's ContractStake and of the
\* StakerInfo entry grow by exactly amount, in the voting component during
\* Voting and in the build_and_earn component during Build&Earn.
C25_StakeFromNextEra ==
    \A account \in Accounts, contract \in Contracts, amount \in 1..MaxBalance :
        LET r == stake(storage, account, contract, amount)
        IN  r.err = "Ok" => StakeTakesEffectNextEra(account, contract, amount, r)

\* a1 staked 3 on c1 in the voting era and 2 more in era 2, whose stake of 3
\* is untouched while era 3 will count 5
C25_Witness ==
    /\ ProtocolState.era = 2
    /\ Components(storage.Ledger["a1"].staked) = <<3, 0>>
    /\ Components(storage.Ledger["a1"].staked_future) = <<3, 2>>
    /\ storage.Ledger["a1"].staked_future.era = 3
    /\ Components(EraInfo.current_stake_amount) = <<3, 0>>
    /\ Components(EraInfo.next_stake_amount) = <<3, 2>>
    /\ Components(storage.StakerInfo[<<"a1", "c1">>].staked) = <<3, 2>>

\* ------------------------------------------------------------------------
\* Unclaimed rewards
\* ------------------------------------------------------------------------
\* the ledger holds stake of an era that has fully elapsed, in a period
\* whose rewards can still be claimed
HasUnclaimedStakerRewards(ledger) ==
    LET first == IF total(ledger.staked) > 0 THEN ledger.staked
                 ELSE ledger.staked_future
    IN  /\ total(first) > 0
        /\ first.era < ProtocolState.era
        /\ ~Expired(first.period)

\* a bonus reward of a past period can still be claimed for the position
HasClaimableBonus(info) ==
    /\ info.staked.period # 0
    /\ info.staked.period < CurrentPeriod
    /\ ~Expired(info.staked.period)
    /\ info.bonus_status > 0

Refused(r) == r.err = "UnclaimedRewards" /\ with_storage_layer(storage, r) = storage

\* the stake calls that get as far as the ledger
StakeReachesLedger(contract, amount) ==
    /\ ~ProtocolState.maintenance
    /\ amount > 0
    /\ is_registered(storage, contract)
    /\ ~is_next_period(ProtocolState, ProtocolState.era + 1)

\* the unstake calls that find a position of some period
UnstakeFindsPosition(account, contract, amount) ==
    /\ ~ProtocolState.maintenance
    /\ amount > 0
    /\ is_registered(storage, contract)
    /\ Position(account, contract).staked.period # 0
    /\ amount <= total(Position(account, contract).staked)

\* the same, with a position of the ongoing period
UnstakeReachesLedger(account, contract, amount) ==
    /\ UnstakeFindsPosition(account, contract, amount)
    /\ Position(account, contract).staked.period = CurrentPeriod

MoveFindsPosition(account, source, destination, amount) ==
    /\ UnstakeFindsPosition(account, source, amount)
    /\ source # destination
    /\ is_registered(storage, destination)

MoveReachesLedger(account, source, destination, amount) ==
    /\ MoveFindsPosition(account, source, destination, amount)
    /\ Position(account, source).staked.period = CurrentPeriod

\* C26 as stated: with staker rewards left to claim, of the ongoing or of
\* an earlier period, stake, unstake and move_stake all answer
\* UnclaimedRewards.
C26_Original ==
    \A account \in Accounts, contract \in Contracts, amount \in 1..MaxAmount :
        HasUnclaimedStakerRewards(storage.Ledger[account]) =>
            /\ StakeReachesLedger(contract, amount) =>
                    Refused(stake(storage, account, contract, amount))
            /\ UnstakeFindsPosition(account, contract, amount) =>
                    Refused(unstake(storage, account, contract, amount))
            /\ \A destination \in Contracts :
                    MoveFindsPosition(account, contract, destination, amount) =>
                        Refused(move_stake(storage, account, contract,
                                    destination, amount))

PastPeriod(r) ==
    r.err = "UnstakeFromPastPeriod" /\ with_storage_layer(storage, r) = storage

\* staker rewards left to claim block all three calls
UnclaimedStakerRewardsBlock(account, contract, amount) ==
    HasUnclaimedStakerRewards(storage.Ledger[account]) =>
        /\ StakeReachesLedger(contract, amount) =>
                Refused(stake(storage, account, contract, amount))
        /\ UnstakeReachesLedger(account, contract, amount) =>
                Refused(unstake(storage, account, contract, amount))
        /\ \A destination \in Contracts :
                MoveReachesLedger(account, contract, destination, amount) =>
                    Refused(move_stake(storage, account, contract,
                                destination, amount))

\* a position of an earlier period cannot be unstaked or moved at all
PastPositionBlocks(account, contract, amount) ==
    Position(account, contract).staked.period < CurrentPeriod =>
        /\ UnstakeFindsPosition(account, contract, amount) =>
                PastPeriod(unstake(storage, account, contract, amount))
        /\ \A destination \in Contracts :
                MoveFindsPosition(account, contract, destination, amount) =>
                    PastPeriod(move_stake(storage, account, contract,
                                    destination, amount))

\* a bonus reward left to claim blocks staking and moving into the contract
ClaimableBonusBlocks(account, contract, amount) ==
    HasClaimableBonus(Position(account, contract)) =>
        /\ StakeReachesLedger(contract, amount)
                /\ amount <= stakeable_amount(storage.Ledger[account], CurrentPeriod) =>
                Refused(stake(storage, account, contract, amount))
        /\ \A source \in Contracts :
                MoveReachesLedger(account, source, contract, amount)
                    /\ StakeReachesLedger(contract, amount) =>
                    Refused(move_stake(storage, account, source, contract, amount))

\* nothing else is answered with UnclaimedRewards
OnlyUnclaimedRewardsBlock(account, contract, amount) ==
    /\ stake(storage, account, contract, amount).err = "UnclaimedRewards" =>
            \/ HasUnclaimedStakerRewards(storage.Ledger[account])
            \/ HasClaimableBonus(Position(account, contract))
    /\ unstake(storage, account, contract, amount).err = "UnclaimedRewards" =>
            HasUnclaimedStakerRewards(storage.Ledger[account])
    /\ \A destination \in Contracts :
            move_stake(storage, account, contract, destination, amount).err
                    = "UnclaimedRewards" =>
                \/ HasUnclaimedStakerRewards(storage.Ledger[account])
                \/ HasClaimableBonus(Position(account, destination))

\* the stake can be unstaked in the era in which it first counts
UnstakeInFirstEra(account, contract, amount) ==
    LET ledger == storage.Ledger[account]
    IN  /\ total(ledger.staked) = 0
        /\ total(ledger.staked_future) > 0
        /\ ledger.staked_future.era = ProtocolState.era
        /\ UnstakeReachesLedger(account, contract, amount)
        => unstake(storage, account, contract, amount).err = "Ok"

\* C26: stake fails with UnclaimedRewards whenever the account has unclaimed
\* staker rewards for a fully elapsed era of its stake, of the ongoing or of
\* an earlier period; unstake and move_stake fail with UnclaimedRewards for
\* such rewards of the ongoing period, while a position of an earlier
\* period is refused with UnstakeFromPastPeriod; stake and move_stake into a
\* contract fail with UnclaimedRewards while a bonus reward of a past period
\* can still be claimed for it; unstake in the era in which the stake first
\* became effective is allowed, and no call is answered with
\* UnclaimedRewards once the pending rewards have been claimed.
C26_UnclaimedRewards ==
    \A account \in Accounts, contract \in Contracts, amount \in 1..MaxAmount :
        /\ UnclaimedStakerRewardsBlock(account, contract, amount)
        /\ PastPositionBlocks(account, contract, amount)
        /\ ClaimableBonusBlocks(account, contract, amount)
        /\ OnlyUnclaimedRewardsBlock(account, contract, amount)
        /\ UnstakeInFirstEra(account, contract, amount)

\* period 2 has begun and a1 has not claimed the rewards of its stake on c1:
\* it cannot stake, and its position on c1 belongs to the past period
C26_Witness ==
    /\ CurrentPeriod = 2
    /\ HasUnclaimedStakerRewards(storage.Ledger["a1"])
    /\ stake(storage, "a1", "c2", 2).err = "UnclaimedRewards"
    /\ unstake(storage, "a1", "c1", 2).err = "UnstakeFromPastPeriod"
    /\ move_stake(storage, "a1", "c1", "c2", 2).err = "UnstakeFromPastPeriod"

\* ------------------------------------------------------------------------
\* Staking in the last era of a period
\* ------------------------------------------------------------------------
\* the next era starts a new period
LastEraOfPeriod ==
    /\ ProtocolState.subperiod = "BuildAndEarn"
    /\ ProtocolState.next_subperiod_start_era <= ProtocolState.era + 1

StakeInLastEra(account, contract, amount, r) ==
    /\ LastEraOfPeriod /\ ~ProtocolState.maintenance
            /\ is_registered(storage, contract) =>
        /\ r.err = "PeriodEndsInNextEra"
        /\ with_storage_layer(storage, r) = storage
    /\ r.err = "PeriodEndsInNextEra" => LastEraOfPeriod
    /\ ProtocolState.subperiod = "Voting" => r.err # "PeriodEndsInNextEra"
    /\ r.err = "Ok" =>
        /\ ~LastEraOfPeriod
        /\ r.st.Ledger[account].staked_future.era = ProtocolState.era + 1
        /\ r.st.Ledger[account].staked_future.period = CurrentPeriod
        /\ on_initialize(r.st, r.st.ActiveProtocolState.next_era_start)
                .ActiveProtocolState.period_number = CurrentPeriod

\* C27: stake fails with PeriodEndsInNextEra whenever the protocol is in
\* Build&Earn and the next era starts a new period, also when a forced
\* subperiod change caused that, and is never rejected for this reason in
\* the Voting subperiod; no stake is accepted whose effective era, era + 1,
\* would already belong to the next period.
C27_NoStakeInLastEra ==
    \A account \in Accounts, contract \in Contracts, amount \in 1..MaxBalance :
        StakeInLastEra(account, contract, amount,
            stake(storage, account, contract, amount))

\* era 2 would be followed by two more eras of period 1, but the end of the
\* subperiod has been forced, and a1's stake on c1 is refused
C27_Witness ==
    /\ ProtocolState.era = 2
    /\ ProtocolState.subperiod = "BuildAndEarn"
    /\ ProtocolState.next_subperiod_start_era = 3
    /\ storage.Ledger["a1"].locked = 5
    /\ stake(storage, "a1", "c1", 3).err = "PeriodEndsInNextEra"

\* ------------------------------------------------------------------------
\* Unstaking from a position
\* ------------------------------------------------------------------------
UnstakeFromPosition(account, contract, amount, r) ==
    LET info == Position(account, contract)
        after == r.st.StakerInfo[<<account, contract>>]
        voting == info.staked.voting
        build_and_earn == info.staked.build_and_earn
        from_voting == Max(amount - build_and_earn, 0)
        forfeits == /\ info.bonus_status > 0
                    /\ ProtocolState.subperiod = "BuildAndEarn"
                    /\ from_voting > 0
    IN  IF voting + build_and_earn - amount < MinimumStakeAmount
        THEN /\ after = StakerInfoNone
             /\ r.st.Ledger[account].contract_stake_count
                    = storage.Ledger[account].contract_stake_count - 1
        ELSE /\ after.staked.build_and_earn = Max(build_and_earn - amount, 0)
             /\ after.staked.voting = voting - from_voting
             /\ after.staked.period = CurrentPeriod
             /\ after.bonus_status =
                    IF forfeits THEN info.bonus_status - 1 ELSE info.bonus_status
             /\ r.st.Ledger[account].contract_stake_count
                    = storage.Ledger[account].contract_stake_count

\* C28: a partial unstake takes from the build_and_earn component first and
\* from the voting component only what exceeds it; bonus_status goes down by
\* exactly one if and only if the position was bonus-eligible and its voting
\* component was reduced during Build&Earn, and is unchanged otherwise; a
\* forfeited position keeps its remaining voting amount as voting stake; an
\* unstake that would leave less than MinimumStakeAmount takes the whole
\* position, which removes the StakerInfo entry and decrements
\* contract_stake_count.
C28_UnstakeOrder ==
    \A account \in Accounts, contract \in Contracts, amount \in 1..MaxBalance :
        LET r == unstake(storage, account, contract, amount)
        IN  r.err = "Ok" => UnstakeFromPosition(account, contract, amount, r)

\* a1 had 3 voting and 2 build_and_earn on c1 and unstaked 3 in Build&Earn:
\* the 2 that are left are voting stake without a bonus
C28_Witness ==
    /\ ProtocolState.subperiod = "BuildAndEarn"
    /\ Position("a1", "c1").staked.voting = 2
    /\ Position("a1", "c1").staked.build_and_earn = 0
    /\ Position("a1", "c1").bonus_status = 0
    /\ storage.Ledger["a1"].contract_stake_count = 1

\* ------------------------------------------------------------------------
\* Unstaking and the stake of the current era
\* ------------------------------------------------------------------------
\* what a position counts for in the current era of the ongoing period
EffectiveNow(info) ==
    IF info.staked.period # CurrentPeriod THEN 0
    ELSE IF info.staked.era <= ProtocolState.era THEN total(info.staked)
    ELSE total(info.previous_staked)

\* and in the next era
EffectiveNext(info) ==
    IF info.staked.period # CurrentPeriod THEN 0 ELSE total(info.staked)

RECURSIVE SumEffectiveNow(_)
SumEffectiveNow(keys) ==
    IF keys = {} THEN 0
    ELSE LET key == CHOOSE k \in keys : TRUE
         IN  EffectiveNow(storage.StakerInfo[key]) + SumEffectiveNow(keys \ {key})

PositionsOn(contract) == {<<account, contract>> : account \in Accounts}

OtherPositions(account, contract) ==
    (Accounts \X Contracts) \ {<<account, contract>>}

\* the part of an unstaked amount that was in effect in the current era
CurrentPart(info, unstaked) ==
    Max(EffectiveNow(info) - (EffectiveNext(info) - unstaked), 0)

UnstakeKeepsCurrentEra(account, contract, amount, r) ==
    LET info == Position(account, contract)
        unstaked == EffectiveNext(info)
                        - EffectiveNext(r.st.StakerInfo[<<account, contract>>])
        id == storage.IntegratedDApps[contract].id
        era == ProtocolState.era
        cs == storage.ContractStake[id]
        cs1 == r.st.ContractStake[id]
    IN  /\ unstaked >= amount
        /\ total(r.st.CurrentEraInfo.current_stake_amount)
                = total(EraInfo.current_stake_amount) - CurrentPart(info, unstaked)
        /\ total(r.st.CurrentEraInfo.next_stake_amount)
                = total(EraInfo.next_stake_amount) - unstaked
        /\ total(contract_stake_get(cs1, era, CurrentPeriod))
                = total(contract_stake_get(cs, era, CurrentPeriod))
                    - CurrentPart(info, unstaked)
        /\ total(contract_stake_get(cs1, era + 1, CurrentPeriod))
                = total(contract_stake_get(cs, era + 1, CurrentPeriod)) - unstaked
        /\ total(r.st.CurrentEraInfo.current_stake_amount)
                >= SumEffectiveNow(OtherPositions(account, contract))
        /\ total(contract_stake_get(cs1, era, CurrentPeriod))
                >= SumEffectiveNow(PositionsOn(contract) \ {<<account, contract>>})

\* the snapshot of an era is the stake that was in effect in it
SnapshotIsCurrentStake ==
    EraChanges =>
        storage'.EraRewards[Len(storage'.EraRewards)].staked
            = total(EraInfo.current_stake_amount)

\* C29: an unstake reduces the current-era stake, in EraInfo and in the
\* contract's ContractStake, only by the part of the unstaked amount that
\* was already in effect in the current era, and the next-era entries by the
\* full amount: stake added during the current era leaves only the next-era
\* entries, so the current-era stake of other accounts, and the
\* EraReward.staked snapshot taken at the end of the era, are never reduced
\* by it.
C29_UnstakeKeepsCurrentEra ==
    /\ [](\A account \in Accounts, contract \in Contracts, amount \in 1..MaxBalance :
            LET r == unstake(storage, account, contract, amount)
            IN  r.err = "Ok" =>
                    UnstakeKeepsCurrentEra(account, contract, amount, r))
    /\ [](total(EraInfo.current_stake_amount)
            = SumEffectiveNow(Accounts \X Contracts))
    /\ [][SnapshotIsCurrentStake]_vars

\* in era 2 a1 has added 2 to its 3 on c1, next to the 3 of a2: unstaking the
\* 2 again leaves the 6 of the current era as they are
C29_Witness ==
    /\ ProtocolState.era = 2
    /\ EffectiveNow(Position("a1", "c1")) = 3
    /\ EffectiveNext(Position("a1", "c1")) = 5
    /\ EffectiveNow(Position("a2", "c1")) = 3
    /\ total(EraInfo.current_stake_amount) = 6
    /\ total(EraInfo.next_stake_amount) = 8
    /\ total(unstake(storage, "a1", "c1", 2).st.CurrentEraInfo.current_stake_amount) = 6
    /\ total(unstake(storage, "a1", "c1", 2).st.CurrentEraInfo.next_stake_amount) = 6

\* ------------------------------------------------------------------------
\* The effect of a move
\* ------------------------------------------------------------------------
\* what a move takes off the source position
MovedAmount(account, source, amount) ==
    LET staked == total(Position(account, source).staked)
    IN  IF ~is_registered(storage, source) \/ staked - amount < MinimumStakeAmount
        THEN staked
        ELSE amount

NextEraStake(s, contract) ==
    total(contract_stake_get(s.ContractStake[s.IntegratedDApps[contract].id],
                             s.ActiveProtocolState.era + 1,
                             s.ActiveProtocolState.period_number))

MoveEffect(account, source, destination, amount, r) ==
    LET ledger == storage.Ledger[account]
        ledger1 == r.st.Ledger[account]
        from == Position(account, source)
        to == Position(account, destination)
        from1 == r.st.StakerInfo[<<account, source>>]
        to1 == r.st.StakerInfo[<<account, destination>>]
        moved == MovedAmount(account, source, amount)
    IN  /\ staked_amount(ledger1, CurrentPeriod) = staked_amount(ledger, CurrentPeriod)
        /\ stakeable_amount(ledger1, CurrentPeriod)
                = stakeable_amount(ledger, CurrentPeriod)
        /\ total(r.st.CurrentEraInfo.next_stake_amount)
                = total(EraInfo.next_stake_amount)
        /\ EffectiveNext(from1) = EffectiveNext(from) - moved
        /\ EffectiveNext(to1) = EffectiveNext(to) + moved
        /\ moved = total(from.staked) => from1 = StakerInfoNone
        /\ is_registered(storage, source) =>
                NextEraStake(r.st, source) = NextEraStake(storage, source) - moved
        /\ NextEraStake(r.st, destination) = NextEraStake(storage, destination) + moved
        /\ ~is_registered(storage, source) =>
            /\ EffectiveNext(to) = 0 => to1.bonus_status = from.bonus_status
            /\ from.bonus_status > 0 =>
                /\ to1.staked.voting = PositionInPeriod(to).voting + from.staked.voting
                /\ to1.staked.build_and_earn =
                        PositionInPeriod(to).build_and_earn + from.staked.build_and_earn
        /\ r.st.CurrentEraInfo.current_stake_amount.voting
                <= r.st.CurrentEraInfo.next_stake_amount.voting

\* C30: a successful move_stake leaves the ledger's staked and stakeable
\* amounts and EraInfo's next-era total stake unchanged; the source position
\* and the source contract's stake go down, and the destination position
\* and the destination contract's next-era stake go up, by exactly the moved
\* amount, which is the whole source position when the source is
\* unregistered (the amount argument is ignored and bonus_status is carried
\* over unchanged) or when the remainder would fall below
\* MinimumStakeAmount; afterwards EraInfo's current-era voting stake does not
\* exceed its next-era voting stake.
C30_MoveEffect ==
    \A account \in Accounts, source \in Contracts, destination \in Contracts,
       amount \in 1..MaxBalance :
        LET r == move_stake(storage, account, source, destination, amount)
        IN  r.err = "Ok" => MoveEffect(account, source, destination, amount, r)

\* c1 has been unregistered while a1 had 3 voting and 2 build_and_earn on it:
\* a move of 2 to c2 takes all 5 there, with the bonus
C30_Witness ==
    LET r == move_stake(storage, "a1", "c1", "c2", 2)
    IN  /\ ~is_registered(storage, "c1")
        /\ Position("a1", "c1").staked.voting = 3
        /\ Position("a1", "c1").staked.build_and_earn = 2
        /\ Position("a1", "c1").bonus_status = 1
        /\ r.err = "Ok"
        /\ r.st.StakerInfo[<<"a1", "c2">>].staked.voting = 3
        /\ r.st.StakerInfo[<<"a1", "c2">>].staked.build_and_earn = 2
        /\ r.st.StakerInfo[<<"a1", "c2">>].bonus_status = 1

\* ------------------------------------------------------------------------
\* Locking while funds are unlocking
\* ------------------------------------------------------------------------
IsUnlocking(account) == Chunks(account) # <<>>

\* the balance that is neither locked nor unlocking
FreshBalance(account) ==
    balance[account] - storage.Ledger[account].locked
        - chunks_sum(Chunks(account))

\* C31 as stated: lock takes the amount from the unlocking chunks first.
C31_Original ==
    \A account \in Accounts, amount \in 1..MaxChunkBalance :
        LET r == lock(storage, balance, account, amount)
            relocked == Min(chunks_sum(Chunks(account)), amount)
        IN  IsUnlocking(account) /\ ~ProtocolState.maintenance =>
                /\ r.err = "Ok"
                /\ chunks_sum(r.st.Ledger[account].unlocking)
                        = chunks_sum(Chunks(account)) - relocked
                /\ r.st.Ledger[account].locked
                        >= storage.Ledger[account].locked + relocked

LockWhileUnlocking(account, amount, r) ==
    IF FreshBalance(account) = 0
    THEN /\ r.err = "ZeroAmount"
         /\ with_storage_layer(storage, r) = storage
    ELSE r.err = "Ok" =>
            /\ r.st.Ledger[account].unlocking = Chunks(account)
            /\ r.st.CurrentEraInfo.unlocking = EraInfo.unlocking
            /\ r.st.Ledger[account].locked
                    = storage.Ledger[account].locked
                        + Min(amount, FreshBalance(account))

\* C31: when an account that has unlocking chunks calls lock(amount), the
\* chunks are left as they are: the unlocking funds count as locked, only
\* balance that is neither locked nor unlocking is locked, min(amount, that
\* balance) of it, and with none of it left the call fails with ZeroAmount
\* whatever is unlocking; unlocking funds return to the active locked amount
\* through relock_unlocking only.
C31_LockLeavesUnlocking ==
    /\ [](\A account \in Accounts, amount \in 1..MaxChunkBalance :
            IsUnlocking(account) /\ ~ProtocolState.maintenance =>
                LockWhileUnlocking(account, amount,
                    lock(storage, balance, account, amount)))
    /\ [][\A account \in Accounts :
            chunks_sum(storage'.Ledger[account].unlocking)
                    < chunks_sum(Chunks(account)) =>
                \/ storage' = claim_unlocked(storage, account, block).st
                \/ storage' = relock_unlocking(storage, account).st]_vars

\* a1 locked its whole balance and started to unlock 1 of it: a lock of 1
\* finds nothing to lock
C31_Witness ==
    /\ storage.Ledger["a1"].locked = MaxChunkBalance - 1
    /\ chunks_sum(Chunks("a1")) = 1
    /\ FreshBalance("a1") = 0
    /\ lock(storage, balance, "a1", 1).err = "ZeroAmount"

\* ------------------------------------------------------------------------
\* C32: dApp rewards of a dApp that has been unregistered
\* ------------------------------------------------------------------------
\* the dApp the contract was registered as holds an unclaimed place in the
\* unexpired tier record of a past era
HoldsPlacement(contract, era) ==
    /\ era < ProtocolState.era
    /\ HasTierRecord(era)
    /\ TierDAppId(contract) \in DOMAIN storage.DAppTiers[era].dapps

Unregistered(contract) == ~storage.IntegratedDApps[contract].registered

\* C32 as stated: after a dApp is unregistered, the dApp rewards of the past
\* eras in which it held a tier placement remain claimable through
\* claim_dapp_reward.
C32_Original ==
    \A contract \in TierContracts, era \in 1..Len(storage.DAppTiers) :
        Unregistered(contract) /\ HoldsPlacement(contract, era)
            => DAppClaim(contract, era).err = "Ok"

UnregisterStep(contract) ==
    /\ unregister(storage, Root, contract).err = "Ok"
    /\ storage' = unregister(storage, Root, contract).st

\* C32: unregister leaves the tier records as they are, the placement of the
\* removed dApp included, and it stays in the record for as long as the
\* dApp is unregistered; claim_dapp_reward however finds the dApp through the
\* registry entry of the contract, so from the unregister step on it answers
\* ContractNotFound for every era and pays nothing.
C32_UnregisteredCannotClaim ==
    /\ [](\A contract \in TierContracts, era \in 1..Len(storage.DAppTiers) :
            Unregistered(contract) =>
                /\ DAppClaim(contract, era).err = "ContractNotFound"
                /\ DAppClaim(contract, era).st = storage)
    /\ [][\A contract \in TierContracts :
            /\ UnregisterStep(contract) =>
                /\ storage'.DAppTiers = storage.DAppTiers
                /\ \A era \in 1..(ProtocolState.era + 1) :
                        claim_dapp_reward(storage', Caller, contract, era, TRUE).err
                            = "ContractNotFound"
            /\ \A era \in 1..Len(storage.DAppTiers) :
                    Unregistered(contract) /\ HoldsPlacement(contract, era)
                        /\ storage'.DAppTiers[era].some
                    => TierDAppId(contract) \in DOMAIN storage'.DAppTiers[era].dapps]_vars

\* the dApp of c2 was unregistered with its place in the record of era 2
\* unclaimed, and the claim for it is refused
C32_Witness ==
    /\ Unregistered("c2")
    /\ HoldsPlacement("c2", 2)
    /\ DAppClaim("c2", 2).err = "ContractNotFound"

\* ------------------------------------------------------------------------
\* C33: the shape of a tier record
\* ------------------------------------------------------------------------
\* the stake the assignment of the era read for the dApp
AssignedStake(id, era) ==
    total(contract_stake_get(storage.ContractStake[id], era,
                             storage.DAppTiers[era].period))

TierPortion(tier_id) == storage.TierConfig.reward_portion[tier_id + 1]

PlacedOnce(placements) == \A p, q \in placements : p.id = q.id => p = q

TierRecordShape(era) ==
    /\ \A tier_id \in TierIds :
            /\ Cardinality(DAppsInTier(storage.DAppTiers[era], tier_id))
                    <= TierSlots(tier_id)
            /\ storage.DAppTiers[era].rewards[tier_id + 1] =
                    IF TierSlots(tier_id) = 0 THEN 0
                    ELSE perbill_mul(TierPortion(tier_id), DAppRewardPool)
                            \div TierSlots(tier_id)
    /\ \A id \in DOMAIN storage.DAppTiers[era].dapps :
            /\ storage.DAppTiers[era].dapps[id].tier \in TierIds
            /\ AssignedStake(id, era)
                    >= TierThreshold(storage.DAppTiers[era].dapps[id].tier)
    /\ \A id \in DOMAIN storage.ContractStake :
            (\A tier_id \in TierIds : AssignedStake(id, era) < TierThreshold(tier_id))
                => id \notin DOMAIN storage.DAppTiers[era].dapps
    /\ \A order \in sorted_orders(storage, era, storage.DAppTiers[era].period) :
            PlacedOnce(assign_tiers(
                dapp_stakes(storage, era, storage.DAppTiers[era].period, order),
                storage.TierConfig, 0, 0, 0))

\* C33: in every tier record a tier holds at most slots_per_tier dApps, a
\* dApp is placed once, the stake of a placed dApp is at least the threshold
\* of its tier, a dApp below every threshold is not placed, the reward of a
\* slot is reward_portion x dapp_reward_pool / slots_per_tier, and a tier
\* without slots has reward zero while the other tiers keep their own share.
C33_TierRecordShape ==
    \A era \in 1..Len(storage.DAppTiers) :
        storage.DAppTiers[era].some => TierRecordShape(era)

\* tier 0 has no slots and reward zero, tier 1 holds two dApps, a third dApp
\* has a stake below both thresholds and is not in the record of era 2
C33_Witness ==
    /\ Len(storage.DAppTiers) >= 2
    /\ storage.DAppTiers[2].some
    /\ TierSlots(0) = 0
    /\ storage.DAppTiers[2].rewards[1] = 0
    /\ storage.DAppTiers[2].rewards[2] > 0
    /\ Cardinality(DAppsInTier(storage.DAppTiers[2], 1)) = 2
    /\ \E id \in DOMAIN storage.ContractStake :
            /\ AssignedStake(id, 2) > 0
            /\ id \notin DOMAIN storage.DAppTiers[2].dapps

\* ------------------------------------------------------------------------
\* C34: the reward of one rank
\* ------------------------------------------------------------------------
\* the dApps of a tier of the stored record of an era, with their ranks
Occupants(era, tier_id) ==
    {[id |-> id, tier |-> tier_id, rank |-> storage.DAppTiers[era].dapps[id].rank] :
        id \in DAppsInTier(storage.DAppTiers[era], tier_id)}

EmptySlots(era, tier_id) ==
    TierSlots(tier_id) - Cardinality(Occupants(era, tier_id))

SlotReward(era, tier_id) == storage.DAppTiers[era].rewards[tier_id + 1]

RankReward(era, tier_id) == storage.DAppTiers[era].rank_rewards[tier_id + 1]

IsRankedWithRoom(era, tier_id) ==
    /\ ranks_sum(Occupants(era, tier_id)) > 0
    /\ EmptySlots(era, tier_id) > 0

\* slot rewards large enough to tell the two bounds of a rank reward apart
SampleSlotRewards == {100, 1000}

\* C34 as stated: with ranked occupants and unfilled slots, rank_reward is
\* the reward of the empty slots divided by the sum of the ranks.
C34_Original ==
    \A era \in 1..Len(storage.DAppTiers), tier_id \in TierIds :
        storage.DAppTiers[era].some /\ IsRankedWithRoom(era, tier_id)
            => RankReward(era, tier_id) =
                    (SlotReward(era, tier_id) * EmptySlots(era, tier_id))
                        \div ranks_sum(Occupants(era, tier_id))

\* C34: with ranked occupants and unfilled slots, rank_reward is the reward
\* of the empty slots divided by the sum of the ranks, but never more than
\* a MAX_RANK-th of the reward of one slot; it is zero for a full tier and
\* for a tier whose occupants all have rank zero.  The same rule holds for
\* the occupants of the record at larger slot rewards.
C34_RankReward ==
    \A era \in 1..Len(storage.DAppTiers), tier_id \in TierIds :
        storage.DAppTiers[era].some =>
            /\ IsRankedWithRoom(era, tier_id) =>
                /\ RankReward(era, tier_id) =
                        Min((SlotReward(era, tier_id) * EmptySlots(era, tier_id))
                                \div ranks_sum(Occupants(era, tier_id)),
                            SlotReward(era, tier_id) \div MAX_RANK)
                /\ \A reward \in SampleSlotRewards :
                        rank_reward(TierSlots(tier_id), reward, Occupants(era, tier_id))
                            = Min((reward * EmptySlots(era, tier_id))
                                        \div ranks_sum(Occupants(era, tier_id)),
                                  reward \div MAX_RANK)
            /\ ~IsRankedWithRoom(era, tier_id) =>
                /\ RankReward(era, tier_id) = 0
                /\ \A reward \in SampleSlotRewards :
                        rank_reward(TierSlots(tier_id), reward, Occupants(era, tier_id)) = 0

\* tier 1 has two slots and one dApp of rank 5: the empty slot is worth 10,
\* a fifth of it is 2, and the rank reward is the cap of 1
C34_Witness ==
    /\ Len(storage.DAppTiers) >= 2
    /\ storage.DAppTiers[2].some
    /\ TierSlots(1) = 2
    /\ EmptySlots(2, 1) = 1
    /\ ranks_sum(Occupants(2, 1)) = 5
    /\ SlotReward(2, 1) = 10
    /\ RankReward(2, 1) = 1

\* ------------------------------------------------------------------------
\* C39: a tier record never promises more than the pool
\* ------------------------------------------------------------------------
\* what the dApps placed in a tier can claim together
TierClaimable(era, tier_id) ==
    Cardinality(Occupants(era, tier_id)) * SlotReward(era, tier_id)
        + ranks_sum(Occupants(era, tier_id)) * RankReward(era, tier_id)

RECURSIVE RecordClaimable(_, _)
RecordClaimable(era, tier_ids) ==
    IF tier_ids = {} THEN 0
    ELSE TierClaimable(era, CHOOSE t \in tier_ids : TRUE)
            + RecordClaimable(era, tier_ids \ {CHOOSE t \in tier_ids : TRUE})

TierAllocation(tier_id) == perbill_mul(TierPortion(tier_id), DAppRewardPool)

\* C39: the sum over the placed dApps of slot reward + rank x rank reward
\* stays within dapp_reward_pool, and within reward_portion x
\* dapp_reward_pool for the dApps of each tier.
C39_WithinPool ==
    \A era \in 1..Len(storage.DAppTiers) :
        storage.DAppTiers[era].some =>
            /\ \A tier_id \in TierIds :
                    TierClaimable(era, tier_id) <= TierAllocation(tier_id)
            /\ RecordClaimable(era, TierIds) <= DAppRewardPool
            /\ \A id \in DOMAIN storage.DAppTiers[era].dapps :
                    tier_claim_amount(storage.DAppTiers[era], id)
                        <= TierClaimable(era, storage.DAppTiers[era].dapps[id].tier)

\* one dApp of rank 10 in a tier of two slots claims the slot reward and as
\* much again for its rank, the whole allocation of the tier; with a full
\* tier 0 the record promises the whole pool
C39_Witness ==
    /\ Len(storage.DAppTiers) >= 2
    /\ storage.DAppTiers[2].some
    /\ TierSlots(1) = 2
    /\ Cardinality(Occupants(2, 1)) = 1
    /\ ranks_sum(Occupants(2, 1)) = MAX_RANK
    /\ TierClaimable(2, 1) = TierAllocation(1)
    /\ RecordClaimable(2, TierIds) = DAppRewardPool

\* ------------------------------------------------------------------------
\* C35: force
\* ------------------------------------------------------------------------
ForcingTypes == {"Era", "Subperiod"}

Forced(origin, forcing_type) == force(storage, origin, forcing_type, block)

\* the protocol state the hook of the next block leaves after the call
AfterForce(forcing_type) ==
    on_initialize(Forced(Root, forcing_type).st, block + 1).ActiveProtocolState

ForceSetsClock(forcing_type) ==
    /\ Forced(Root, forcing_type).err = "Ok"
    /\ Forced(Root, forcing_type).st.ActiveProtocolState =
            [ProtocolState EXCEPT
                !.next_era_start = block + 1,
                !.next_subperiod_start_era =
                    IF forcing_type = "Era" THEN @ ELSE ProtocolState.era + 1]
    /\ Forced(Root, forcing_type).st =
            [storage EXCEPT !.ActiveProtocolState =
                                Forced(Root, forcing_type).st.ActiveProtocolState]

\* the subperiod ends with the era when force(Subperiod) was called or the
\* era was the last of the subperiod anyway
ForceEndsEra(forcing_type) ==
    /\ AfterForce(forcing_type).era = ProtocolState.era + 1
    /\ IF forcing_type = "Era"
            /\ ProtocolState.next_subperiod_start_era > ProtocolState.era + 1
       THEN /\ ProtocolState.subperiod = "BuildAndEarn"
            /\ AfterForce(forcing_type).subperiod = "BuildAndEarn"
            /\ AfterForce(forcing_type).period_number = ProtocolState.period_number
       ELSE IF ProtocolState.subperiod = "Voting"
       THEN /\ AfterForce(forcing_type).subperiod = "BuildAndEarn"
            /\ AfterForce(forcing_type).period_number = ProtocolState.period_number
       ELSE /\ AfterForce(forcing_type).subperiod = "Voting"
            /\ AfterForce(forcing_type).period_number = ProtocolState.period_number + 1

\* C35: force(Era) sets next_era_start to the next block and leaves
\* next_subperiod_start_era, force(Subperiod) also sets
\* next_subperiod_start_era to era + 1, and nothing else changes; the next
\* block then starts a new era, in the same Build&Earn subperiod after
\* force(Era) in an era that is not the last of the subperiod, in
\* Build&Earn when Voting ends, in a new period when Build&Earn ends.  The
\* call requires root, and while the safeguard is set, as it is at genesis
\* unless configured otherwise, it fails with ForceNotAllowed and changes
\* nothing.
C35_Force ==
    /\ genesis_safeguard("None")
    /\ \A forcing_type \in ForcingTypes :
        /\ \A origin \in Origins \ {Root} :
                /\ Forced(origin, forcing_type).err = "BadOrigin"
                /\ Forced(origin, forcing_type).st = storage
        /\ storage.Safeguard =>
                /\ Forced(Root, forcing_type).err = "ForceNotAllowed"
                /\ Forced(Root, forcing_type).st = storage
        /\ ~storage.Safeguard =>
                /\ ForceSetsClock(forcing_type)
                /\ ForceEndsEra(forcing_type)

\* force(Subperiod) was called twice: the third era, in the second block
\* after genesis at the earliest, is the Voting era of period 2
C35_Witness ==
    /\ ~storage.Safeguard
    /\ ProtocolState.era = 3
    /\ ProtocolState.subperiod = "Voting"
    /\ ProtocolState.period_number = 2
    /\ block = 3

\* ------------------------------------------------------------------------
\* C36: positions on an unregistered contract
\* ------------------------------------------------------------------------
Release(account, contract) == unstake_from_unregistered(storage, account, contract)

\* a successful release takes the whole position out of every total
ReleaseEffect(account, contract, r) ==
    /\ r.st.StakerInfo[<<account, contract>>] = StakerInfoNone
    /\ \A other \in (Accounts \X Contracts) \ {<<account, contract>>} :
            r.st.StakerInfo[other] = storage.StakerInfo[other]
    /\ r.st.Ledger[account].contract_stake_count
            = storage.Ledger[account].contract_stake_count - 1
    /\ staked_amount(r.st.Ledger[account], CurrentPeriod)
            = staked_amount(storage.Ledger[account], CurrentPeriod)
                - total_staked_amount(Position(account, contract))
    /\ total(r.st.CurrentEraInfo.next_stake_amount)
            = total(EraInfo.next_stake_amount)
                - total_staked_amount(Position(account, contract))
    /\ r.st.IntegratedDApps = storage.IntegratedDApps
    /\ r.st.Ledger[account].locked = storage.Ledger[account].locked

ReleaseAnswers(account, contract) ==
    /\ is_registered(storage, contract) =>
            /\ Release(account, contract).err = "ContractStillActive"
            /\ Release(account, contract).st = storage
    /\ ~is_registered(storage, contract) =>
        /\ stake(storage, account, contract, MinimumStakeAmount).err = "ContractNotFound"
        /\ \A amount \in 1..MaxAmount :
                unstake(storage, account, contract, amount).err = "ContractNotFound"
        /\ ~staking_info_exists(Position(account, contract)) =>
                /\ Release(account, contract).err = "NoStakingInfo"
                /\ Release(account, contract).st = storage
        /\ staking_info_exists(Position(account, contract))
                /\ Position(account, contract).staked.period < CurrentPeriod =>
                /\ Release(account, contract).err = "UnstakeFromPastPeriod"
                /\ Release(account, contract).st = storage
        /\ Release(account, contract).err = "Ok" =>
                ReleaseEffect(account, contract, Release(account, contract))
        /\ \A destination \in Contracts, amount \in 1..MaxAmount :
                move_stake(storage, account, contract, destination, amount).err = "Ok"
                    => move_stake(storage, account, contract, destination, amount)
                            .st.StakerInfo[<<account, contract>>] = StakerInfoNone

\* unregister takes the registry entry and the ContractStake entry and
\* leaves the stakers alone
UnregisterEffect(contract) ==
    /\ ~storage'.IntegratedDApps[contract].registered
    /\ storage'.ContractStake[storage.IntegratedDApps[contract].id] = ContractStakeDefault
    /\ storage'.StakerInfo = storage.StakerInfo
    /\ storage'.Ledger = storage.Ledger
    /\ storage'.CurrentEraInfo = storage.CurrentEraInfo

\* C36: unregister removes the registry entry and the ContractStake entry of
\* the dApp and leaves StakerInfo and the ledgers; afterwards stake and
\* unstake fail with ContractNotFound, and unstake_from_unregistered fails
\* with ContractStillActive for a registered contract, NoStakingInfo without
\* a position, UnstakeFromPastPeriod for a position of an ended period, and
\* on success removes the whole entry, decrements contract_stake_count and
\* takes the position's total off the ledger stake and off the next-era
\* total of EraInfo; move_stake from the contract moves the whole position
\* too.
C36_UnstakeFromUnregistered ==
    /\ [](\A account \in Accounts, contract \in Contracts :
                ReleaseAnswers(account, contract))
    /\ [][\A contract \in Contracts :
            UnregisterStep(contract) => UnregisterEffect(contract)]_vars

\* a1 has a position of the ongoing period on the unregistered c1, whose
\* ledger stake is still counted, and releases it
C36_Witness ==
    /\ ~is_registered(storage, "c1")
    /\ staking_info_exists(Position("a1", "c1"))
    /\ total_staked_amount(Position("a1", "c1")) > 0
    /\ storage.Ledger["a1"].contract_stake_count > 0
    /\ Release("a1", "c1").err = "Ok"

\* ------------------------------------------------------------------------
\* C37: the totals of locked and unlocking funds
\* ------------------------------------------------------------------------
RECURSIVE LockedSum(_, _)
LockedSum(s, accounts) ==
    IF accounts = {} THEN 0
    ELSE active_locked_amount(s.Ledger[CHOOSE a \in accounts : TRUE])
            + LockedSum(s, accounts \ {CHOOSE a \in accounts : TRUE})

RECURSIVE UnlockingSum(_, _)
UnlockingSum(s, accounts) ==
    IF accounts = {} THEN 0
    ELSE unlocking_amount(s.Ledger[CHOOSE a \in accounts : TRUE])
            + UnlockingSum(s, accounts \ {CHOOSE a \in accounts : TRUE})

TotalsMatchLedgers ==
    /\ EraInfo.total_locked = LockedSum(storage, Accounts)
    /\ EraInfo.unlocking = UnlockingSum(storage, Accounts)
    /\ \A account \in Accounts :
            /\ Frozen(storage, account)
                    = storage.Ledger[account].locked + chunks_sum(Chunks(account))
            /\ Frozen(storage, account) <= balance[account]

\* the step is a successful unlock or relock_unlocking of the account
MovesBetweenTotals(account) ==
    \/ \E amount \in 1..MaxBalance :
            /\ unlock(storage, account, amount, block).err = "Ok"
            /\ storage' = unlock(storage, account, amount, block).st
    \/ /\ relock_unlocking(storage, account).err = "Ok"
       /\ storage' = relock_unlocking(storage, account).st

\* C37: EraInfo.total_locked is the sum of the ledgers' active locked
\* amounts and EraInfo.unlocking the sum of their unlocking chunks; the
\* frozen balance of an account is its locked plus its unlocking amount and
\* at most its total balance; unlock and relock_unlocking move an amount
\* from one total to the other and leave every frozen balance as it was.
C37_LockTotals ==
    /\ []TotalsMatchLedgers
    /\ [][\A account \in Accounts :
            MovesBetweenTotals(account) =>
                /\ storage'.CurrentEraInfo.total_locked + storage'.CurrentEraInfo.unlocking
                        = EraInfo.total_locked + EraInfo.unlocking
                /\ storage'.CurrentEraInfo.total_locked - EraInfo.total_locked
                        = storage'.Ledger[account].locked - storage.Ledger[account].locked
                /\ storage'.CurrentEraInfo.total_locked # EraInfo.total_locked
                /\ \A other \in Accounts :
                        Frozen(storage', other) = Frozen(storage, other)]_vars

\* both accounts have locked funds and a1 has funds in both totals
C37_Witness ==
    /\ storage.Ledger["a1"].locked > 0
    /\ chunks_sum(Chunks("a1")) > 0
    /\ storage.Ledger["a2"].locked > 0
    /\ EraInfo.total_locked = storage.Ledger["a1"].locked + storage.Ledger["a2"].locked
    /\ EraInfo.unlocking = chunks_sum(Chunks("a1"))

\* ------------------------------------------------------------------------
\* C38: the number of contracts an account stakes on
\* ------------------------------------------------------------------------
StakeCount(account) == storage.Ledger[account].contract_stake_count

\* the contracts the account has a StakerInfo entry for, of any period
EntriesOf(account) ==
    {contract \in DOMAIN storage.IntegratedDApps :
        staking_info_exists(Position(account, contract))}

AtTheCap(account) == StakeCount(account) = MaxNumberOfStakedContracts

EarlierStakeErrors ==
    {"PeriodEndsInNextEra", "UnclaimedRewards", "UnavailableStakeFunds",
     "InsufficientStakeAmount"}

\* at the cap a call that would start an entry is refused; a refused call
\* leaves the storage as it is (Dispatch)
RefusedAtTheCap(r) ==
    r.err \in EarlierStakeErrors \cup {"TooManyStakedContracts"}

IsPartialMove(account, source, amount) ==
    /\ staking_info_exists(Position(account, source))
    /\ Position(account, source).staked.period = CurrentPeriod
    /\ total_staked_amount(Position(account, source)) >= amount + MinimumStakeAmount

IsFullMove(account, source, amount) ==
    /\ staking_info_exists(Position(account, source))
    /\ Position(account, source).staked.period = CurrentPeriod
    /\ total_staked_amount(Position(account, source)) - amount < MinimumStakeAmount

StakeCountAnswers(account, contract) ==
    /\ AtTheCap(account) /\ ~staking_info_exists(Position(account, contract)) =>
        /\ RefusedAtTheCap(stake(storage, account, contract, MinimumStakeAmount))
        /\ \A source \in EntriesOf(account) :
            /\ IsPartialMove(account, source, MinimumStakeAmount) =>
                    RefusedAtTheCap(move_stake(storage, account, source, contract,
                                               MinimumStakeAmount))
            /\ IsFullMove(account, source, MinimumStakeAmount) =>
                    move_stake(storage, account, source, contract, MinimumStakeAmount).err
                        \in EarlierStakeErrors \cup {"Ok"}
    /\ \A source \in EntriesOf(account) :
            move_stake(storage, account, source, contract, MinimumStakeAmount).err
                    = "TooManyStakedContracts"
                => AtTheCap(account) /\ IsPartialMove(account, source, MinimumStakeAmount)
    /\ stake(storage, account, contract, MinimumStakeAmount).err = "TooManyStakedContracts"
            => AtTheCap(account)

StallUntil == 4

\* the periods the clock is followed through
LivePeriods == 1

\* a period takes at most five blocks once the blocks all count
MaxLiveBlock == StallUntil + 5 * LivePeriods

LiveBlock ==
    /\ storage.ActiveProtocolState.maintenance => block < StallUntil
    /\ NextBlock(MaxLiveBlock)

EndMaintenance ==
    /\ Dispatch("maintenance_mode", maintenance_mode(storage, Root, FALSE))
    /\ UNCHANGED balance

NextLive ==
    \/ LiveBlock
    \/ MaintenanceMode
    \/ Stake({"a1"}, {"c1"}, {2})
    \/ Unstake({"a1"}, {"c1"}, {2})

\* blocks keep being produced, and maintenance mode is switched off again
LiveFairness ==
    /\ SF_vars(LiveBlock)
    /\ WF_vars(EndMaintenance)

SpecLive == InitTwo /\ [][NextLive]_vars /\ LiveFairness

\* ------------------------------------------------------------------------
\* C40: liveness of the protocol clock
\* ------------------------------------------------------------------------
ClockEra == storage.ActiveProtocolState.era

ClockSubperiod == storage.ActiveProtocolState.subperiod

\* the eras of the periods that are followed: a period has four eras
LiveEras == 1 .. (4 * LivePeriods)

EraAdvances == \A era \in LiveEras : (ClockEra = era) ~> (ClockEra > era)

BuildAndEarnEnds ==
    \A period \in 1 .. LivePeriods :
        (CurrentPeriod = period /\ ClockSubperiod = "BuildAndEarn")
            ~> (CurrentPeriod = period + 1 /\ ClockSubperiod = "Voting")

PeriodIncreases ==
    \A period \in 1 .. LivePeriods : (CurrentPeriod = period) ~> (CurrentPeriod > period)

ClockNeverReverses ==
    [][/\ storage'.ActiveProtocolState.era >= ClockEra
       /\ storage'.ActiveProtocolState.period_number >= CurrentPeriod]_vars

\* C40: when blocks keep being produced and maintenance mode is switched
\* off again, the era advances, every Build&Earn subperiod ends and the
\* period number increases, whatever the staker's calls in between; no
\* step takes the era or the period number back.
C40_ClockLiveness ==
    /\ EraAdvances
    /\ BuildAndEarnEnds
    /\ PeriodIncreases
    /\ ClockNeverReverses

\* the second period has begun later than scheduled, after blocks that
\* passed in maintenance mode, with a1 staking
C40_Witness ==
    /\ CurrentPeriod = 2
    /\ ClockEra = 5
    /\ block > 6
    /\ storage.ActiveProtocolState.next_era_start = block + 2
    /\ total(storage.Ledger["a1"].staked_future) > 0

====
